---- MODULE Spec2Model ----
(***************************************************************************)
(* A model of the sensory organs of ariannabody (Vision, Hearing,          *)
(* Document, Screen), of the Document organ's extraction cache and of the  *)
(* orchestrator that composes the organs.                                  *)
(*                                                                         *)
(* Conventions.                                                            *)
(*  - A Python text is a sequence of string tokens; "" is <<>>.            *)
(*  - An Optional value is a sequence of length 0 (None) or 1 (the value). *)
(*  - A returned dict is a record holding exactly the keys the code puts   *)
(*    in it; timestamps are left out.                                      *)
(*  - An operation of an organ is an operator returning an outcome record  *)
(*    [raised, result, captures, prompts, shots_left]: whether an          *)
(*    exception escaped, the returned dict, the number of capture          *)
(*    subprocess calls, the prompts submitted to the inference capability, *)
(*    and the number of screenshot files left on disk.                     *)
(***************************************************************************)
EXTENDS Integers, Sequences, FiniteSets, TLC

VARIABLES
    env,        \* what the host offers: packages, credential, termux tools
    call,       \* the organ operation last invoked, with its inputs
    result,     \* the dict it returned (Optional)
    raised,     \* whether an exception escaped from it
    captures,   \* capture subprocess calls it made
    prompts,    \* prompts it submitted to the inference capability
    files,      \* the file system: path -> Optional content
    cache,      \* rows of the table document_cache
    rf,         \* the read_file call in flight (its locals), or idle
    lastStore,  \* history: path -> number of _save_cache calls and the last row
    lookup,     \* the last _get_cached made directly, with its answer
    prevDefault,\* history: the default question of an earlier call
    pm,         \* the perceive_moment call in flight (its locals)
    deep,       \* the deep variant in flight (its locals)
    db,         \* the sqlite files of the conversation store, their write lock, the clock
    log,        \* the log_event call of each process (its position)
    hist,       \* the answer of the last get_history (Optional)
    ext,        \* the external call an operation waits for, or its outcome
    mon,        \* the screen organ's monitoring fields and the continuous loops in flight
    chat,       \* the AriannaAgent: its assistant id and the chat call in flight
    up          \* the upload directory, the clock and the /photo requests in flight

vars == <<env, call, result, raised, captures, prompts, files, cache, rf,
          lastStore, lookup, prevDefault, pm, deep, db, log, hist, ext, mon, chat, up>>

----------------------------------------------------------------------------
(* Python values *)

None == <<>>
Some(x) == <<x>>

\* bool(x) of an Optional text: None and "" are falsy
Truthy(opt) == opt # None /\ opt[1] # <<>>

\* `opt or default`
OrElse(opt, default) == IF Truthy(opt) THEN opt[1] ELSE default

\* dict.get(key) of a result dict, for a boolean key
GetBool(d, key) == IF key \in DOMAIN d THEN d[key] ELSE FALSE

\* The text an inference call answers a prompt with: a text that depends on
\* the operation, the preamble and the question it was given
Reply(prompt) == <<"reply to", prompt.op, prompt.preamble>> \o prompt.question

Ret(res, ncaptures, submitted, nleft) ==
    [raised |-> FALSE, result |-> Some(res), captures |-> ncaptures,
     prompts |-> submitted, shots_left |-> nleft]

Raise(exc, ncaptures, submitted, nleft) ==
    [raised |-> TRUE, result |-> None, captures |-> ncaptures,
     prompts |-> submitted, shots_left |-> nleft, exception |-> exc]

----------------------------------------------------------------------------
(* Inputs *)

INNER == "inner"
MAIN == "main"

\* persona strings a caller can pass: the two ipostases and one other string
WhoValues == {"main", "inner", "INNER"}

\* question arguments: None, the empty string, a real question
Questions == {None, Some(<<>>), Some(<<"What is it?">>)}

\* an input file of an organ
InputStates == {"ok", "missing", "unreadable"}

\* what the inference capability does with a call
InfOutcomes == {"ok", "raise"}

----------------------------------------------------------------------------
(* Vision organ: src/modules/arianna_vision.py *)

VISION_PROMPT_MAIN == "VISION_PROMPT_MAIN"
VISION_PROMPT_INNER == "VISION_PROMPT_INNER"

VisionDefaultInner ==
    <<"What do I feel from this image? Describe the atmosphere and emotion.">>
VisionDefaultMain ==
    <<"What do I see? Describe this image in detail, including context and meaning.">>
VideoDefault ==
    <<"Summarize this video and tell me what I learned from watching it.">>

\* a comparison that ignores case
Vision_get_prompt_for_ipostase_any_case(who_sees) ==
    IF who_sees \in {"inner", "INNER"} THEN VISION_PROMPT_INNER
    ELSE VISION_PROMPT_MAIN

Vision_get_prompt_for_ipostase_collapsed(who_sees) == VISION_PROMPT_MAIN

Vision_get_prompt_for_ipostase(who_sees) ==
    IF who_sees = INNER THEN VISION_PROMPT_INNER ELSE VISION_PROMPT_MAIN

\* one default question for both personas
see_image_base_question_single(question, who_sees) ==
    OrElse(question, VisionDefaultMain)

see_image_base_question(question, who_sees) ==
    IF who_sees = INNER
    THEN OrElse(question, VisionDefaultInner)
    ELSE OrElse(question, VisionDefaultMain)

\* the try block of see_image and its two handlers
see_image_try(image, question, who_sees, inf) ==
    IF image = "missing"
    THEN Ret([success |-> FALSE, error |-> "File not found: Image not found",
              organ |-> "vision"], 0, <<>>, 0)
    ELSE IF image = "unreadable"
    THEN Ret([success |-> FALSE, error |-> "Vision error: cannot read image",
              organ |-> "vision"], 0, <<>>, 0)
    ELSE LET organ_prompt == Vision_get_prompt_for_ipostase(who_sees)
             base_question == see_image_base_question(question, who_sees)
             full_prompt == [op |-> "see_image", preamble |-> organ_prompt,
                             question |-> base_question]
         IN  IF inf = "raise"
             THEN Ret([success |-> FALSE, error |-> "Vision error: inference failed",
                       organ |-> "vision"], 0, <<full_prompt>>, 0)
             ELSE Ret([success |-> TRUE, organ |-> "vision", who_sees |-> who_sees,
                       perception |-> Reply(full_prompt),
                       question |-> base_question], 0, <<full_prompt>>, 0)

\* see_image without its `if not self.vision_available` guard
see_image_unguarded(vision_available, image, question, who_sees, inf) ==
    see_image_try(image, question, who_sees, inf)

see_image(vision_available, image, question, who_sees, inf) ==
    IF ~vision_available
    THEN Ret([success |-> FALSE, error |-> "Vision module not available",
              organ |-> "vision"], 0, <<>>, 0)
    ELSE see_image_try(image, question, who_sees, inf)

watch_video(vision_available, question, who_sees, inf) ==
    IF ~vision_available
    THEN Ret([success |-> FALSE, error |-> "Vision module not available"], 0, <<>>, 0)
    ELSE LET organ_prompt == Vision_get_prompt_for_ipostase(who_sees)
             base_question == OrElse(question, VideoDefault)
             full_prompt == [op |-> "watch_video", preamble |-> organ_prompt,
                             question |-> base_question]
         IN  IF inf = "raise"
             THEN Ret([success |-> FALSE, error |-> "Video analysis error: inference failed",
                       organ |-> "vision"], 0, <<full_prompt>>, 0)
             ELSE Ret([success |-> TRUE, organ |-> "vision", who_sees |-> who_sees,
                       summary |-> Reply(full_prompt)], 0, <<full_prompt>>, 0)

----------------------------------------------------------------------------
(* Hearing organ: src/modules/arianna_hearing.py *)

HEARING_PROMPT_MAIN == "HEARING_PROMPT_MAIN"
HEARING_PROMPT_INNER == "HEARING_PROMPT_INNER"

HearingDefaultInner ==
    <<"What do I feel from this sound? What emotions and resonance?">>
HearingDefaultMain ==
    <<"What do I hear? Transcribe and analyze the audio.">>

Hearing_get_prompt_for_ipostase(who_hears) ==
    IF who_hears = INNER THEN HEARING_PROMPT_INNER ELSE HEARING_PROMPT_MAIN

hear_audio_base_question(question, who_hears) ==
    IF who_hears = INNER
    THEN OrElse(question, HearingDefaultInner)
    ELSE OrElse(question, HearingDefaultMain)

\* hear_audio with the try block's handlers left out: the exception escapes
hear_audio_unhandled(hearing_available, audio, question, who_hears, inf) ==
    IF ~hearing_available
    THEN Ret([success |-> FALSE, error |-> "Hearing module not available",
              organ |-> "hearing"], 0, <<>>, 0)
    ELSE IF audio = "missing"
    THEN Ret([success |-> FALSE, error |-> "Audio file not found",
              organ |-> "hearing"], 0, <<>>, 0)
    ELSE LET full_prompt == [op |-> "hear_audio",
                             preamble |-> Hearing_get_prompt_for_ipostase(who_hears),
                             question |-> hear_audio_base_question(question, who_hears)]
         IN  IF audio = "unreadable"
             THEN Raise("upload_file error", 0, <<>>, 0)
             ELSE IF inf = "raise"
             THEN Raise("generate_content error", 0, <<full_prompt>>, 0)
             ELSE Ret([success |-> TRUE, organ |-> "hearing", who_hears |-> who_hears,
                       perception |-> Reply(full_prompt),
                       question |-> full_prompt.question], 0, <<full_prompt>>, 0)

hear_audio(hearing_available, audio, question, who_hears, inf) ==
    IF ~hearing_available
    THEN Ret([success |-> FALSE, error |-> "Hearing module not available",
              organ |-> "hearing"], 0, <<>>, 0)
    ELSE IF audio = "missing"
    THEN Ret([success |-> FALSE, error |-> "Audio file not found",
              organ |-> "hearing"], 0, <<>>, 0)
    ELSE LET organ_prompt == Hearing_get_prompt_for_ipostase(who_hears)
             base_question == hear_audio_base_question(question, who_hears)
             full_prompt == [op |-> "hear_audio", preamble |-> organ_prompt,
                             question |-> base_question]
         IN  IF audio = "unreadable"
             THEN \* genai.upload_file raises before any prompt is submitted
                  Ret([success |-> FALSE, error |-> "Hearing error: upload failed",
                       organ |-> "hearing"], 0, <<>>, 0)
             ELSE IF inf = "raise"
             THEN Ret([success |-> FALSE, error |-> "Hearing error: inference failed",
                       organ |-> "hearing"], 0, <<full_prompt>>, 0)
             ELSE Ret([success |-> TRUE, organ |-> "hearing", who_hears |-> who_hears,
                       perception |-> Reply(full_prompt),
                       question |-> base_question], 0, <<full_prompt>>, 0)

----------------------------------------------------------------------------
(* Screen organ: src/modules/arianna_screen.py *)

SCREEN_ORGAN_PROMPT == "SCREEN_ORGAN_PROMPT"

ScreenDefault ==
    <<"What do I see on my screen right now? What is happening?">>

see_screen_base_question(question, who_sees) == OrElse(question, ScreenDefault)

\* the f-string that wraps the question into the screen context
screen_context(base_question) ==
    <<SCREEN_ORGAN_PROMPT, "Arianna is looking at her phone screen.", "Question:">>
        \o base_question

\* _take_screenshot: None without termux-screenshot, else one subprocess call
\* whose file exists afterwards or not
take_screenshot(termux_available, shot_ok) ==
    IF ~termux_available THEN [path |-> None, captures |-> 0]
    ELSE IF shot_ok THEN [path |-> Some("screen.png"), captures |-> 1]
    ELSE [path |-> None, captures |-> 1]

see_screen(vision_imported, termux_available, vision_available, question, who_sees, save_screenshot, shot_ok, inf) ==
    IF ~vision_imported
    THEN Ret([success |-> FALSE, error |-> "Vision module not available",
              organ |-> "screen"], 0, <<>>, 0)
    ELSE IF ~termux_available
    THEN Ret([success |-> FALSE, error |-> "termux-screenshot not available",
              organ |-> "screen"], 0, <<>>, 0)
    ELSE LET shot == take_screenshot(termux_available, shot_ok)
         IN  IF shot.path = None
             THEN Ret([success |-> FALSE, error |-> "Failed to take screenshot",
                       organ |-> "screen"], shot.captures, <<>>, 0)
             ELSE LET base_question == see_screen_base_question(question, who_sees)
                      v == see_image(vision_available, "ok",
                                     Some(screen_context(base_question)),
                                     who_sees, inf)
                      vision_result == v.result[1]
                  IN  IF ~GetBool(vision_result, "success")
                      THEN Ret(vision_result, shot.captures, v.prompts, 1)
                      ELSE Ret([success |-> TRUE, organ |-> "screen",
                                who_sees |-> who_sees,
                                screen_perception |-> vision_result.perception,
                                screenshot_path |->
                                    IF save_screenshot THEN shot.path ELSE None],
                               shot.captures, v.prompts,
                               IF save_screenshot THEN 1 ELSE 0)

----------------------------------------------------------------------------
(* Document organ: src/modules/arianna_document.py *)

DOCUMENT_PROMPT_MAIN == "DOCUMENT_PROMPT_MAIN"
DOCUMENT_PROMPT_INNER == "DOCUMENT_PROMPT_INNER"

max_text_size == 100000
PromptContextChars == 5000

\* files the Document organ is asked to read, and what they can hold
Paths == {"notes.txt", "paper.pdf"}
TextA == <<"alpha", "beta", "gamma">>
PdfB == <<"%PDF", "delta">>
Contents == {TextA, PdfB}

Suffix(path) ==
    CASE path = "notes.txt" -> ".txt"
      [] path = "paper.pdf" -> ".pdf"
      [] OTHER -> ""

\* str(n) for the word counts the model meets
Str(n) == <<"0", "1", "2", "3", "4", "5", "6", "7", "8", "9">>[n + 1]

Document_get_prompt_for_ipostase(who_reads) ==
    IF who_reads = INNER THEN DOCUMENT_PROMPT_INNER ELSE DOCUMENT_PROMPT_MAIN

\* hashlib.sha256(bytes).hexdigest()[:16]: a digest that is a function of the
\* content, distinct for the distinct contents of the model
get_file_hash(content) == <<"sha256">> \o content

Hashes == {get_file_hash(c) : c \in Contents}

\* INSERT OR REPLACE without the PRIMARY KEY on path: a plain insert
save_cache_append(rows, path, file_hash, file_type, extracted_text, summary) ==
    rows \cup {[path |-> path, file_hash |-> file_hash, file_type |-> file_type,
                extracted_text |-> extracted_text, summary |-> summary]}

\* INSERT OR REPLACE INTO document_cache, path being the PRIMARY KEY
save_cache(rows, path, file_hash, file_type, extracted_text, summary) ==
    {r \in rows : r.path # path}
        \cup {[path |-> path, file_hash |-> file_hash, file_type |-> file_type,
               extracted_text |-> extracted_text, summary |-> summary]}

\* a lookup that finds nothing
get_cached_miss(rows, path, file_hash) == None

\* SELECT ... WHERE path = ?: the hash is not compared
get_cached_by_path(rows, path, file_hash) ==
    LET hit == {r \in rows : r.path = path}
    IN  IF hit = {} THEN None
        ELSE LET r == CHOOSE x \in hit : TRUE
             IN  Some([extracted_text |-> r.extracted_text, summary |-> r.summary])

\* SELECT extracted_text, summary ... WHERE path = ? AND file_hash = ?; fetchone
get_cached(rows, path, file_hash) ==
    LET hit == {r \in rows : r.path = path /\ r.file_hash = file_hash}
    IN  IF hit = {} THEN None
        ELSE LET r == CHOOSE x \in hit : TRUE
             IN  Some([extracted_text |-> r.extracted_text, summary |-> r.summary])

truncate(text) ==
    IF Len(text) > max_text_size
    THEN SubSeq(text, 1, max_text_size) \o <<"[Truncated]">>
    ELSE text

\* text.startswith("[")
StartsWithBracket(text) == Len(text) > 0 /\ text[1] = "["

extract_pdf(content, pypdf) ==
    IF ~pypdf THEN <<"[", "PDF extraction requires pypdf: pip install pypdf">>
    ELSE IF Len(content) = 0 \/ content[1] # "%PDF"
    THEN <<"[", "PDF extraction error">>
    ELSE LET text == Tail(content)
         IN  IF text = <<>> THEN <<"[", "PDF is empty">> ELSE truncate(text)

extract_txt(content) == truncate(content)

\* _detect_and_extract: FileNotFoundError when the file is absent, else
\* (file_type, extracted_text) by the path's suffix
detect_and_extract(path, file, pypdf) ==
    IF file = None
    THEN [raised |-> TRUE, file_type |-> "", extracted_text |-> <<>>]
    ELSE IF Suffix(path) = ".pdf"
    THEN [raised |-> FALSE, file_type |-> "PDF",
          extracted_text |-> extract_pdf(file[1], pypdf)]
    ELSE IF Suffix(path) = ".txt"
    THEN [raised |-> FALSE, file_type |-> "TEXT",
          extracted_text |-> extract_txt(file[1])]
    ELSE [raised |-> FALSE, file_type |-> "UNKNOWN",
          extracted_text |-> extract_txt(file[1])]

make_summary(file_type, extracted_text) ==
    IF StartsWithBracket(extracted_text)
    THEN extracted_text
    ELSE <<file_type, "document with", Str(Len(extracted_text)), "words.">>

doc_error(msg) == [success |-> FALSE, error |-> msg, organ |-> "document"]

\* a test that lets an empty question through
should_ask_any_question(gemini_available, question) ==
    gemini_available /\ question # None

\* `if self.gemini_available and question`
should_ask(gemini_available, question) == gemini_available /\ Truthy(question)

\* read_file from the cache lookup on: the part of the try block after
\* _get_file_hash.  lookup_err / store_err: sqlite3 raises in _get_cached /
\* _save_cache.  Gives the outcome and the rows of the cache afterwards.
read_file_rest(rows, path, file_hash, file, question, who_reads, gemini_available, pypdf, lookup_err, store_err, inf) ==
    IF lookup_err
    THEN [out |-> Ret(doc_error("Document reading error: cache lookup"), 0, <<>>, 0),
          rows |-> rows, extracted |-> FALSE]
    ELSE
    LET cached == get_cached(rows, path, file_hash)
        d == detect_and_extract(path, file, pypdf)
        file_type == IF cached # None THEN "CACHED" ELSE d.file_type
        extracted_text == IF cached # None THEN cached[1].extracted_text
                          ELSE d.extracted_text
        summary == IF cached # None THEN cached[1].summary
                   ELSE make_summary(file_type, extracted_text)
        rows2 == IF cached # None THEN rows
                 ELSE save_cache(rows, path, file_hash, file_type,
                                 extracted_text, summary)
        full_prompt == [op |-> "read_file",
                        preamble |-> Document_get_prompt_for_ipostase(who_reads),
                        file_path |-> path, file_type |-> file_type,
                        extracted |-> SubSeq(extracted_text, 1,
                                        IF Len(extracted_text) < PromptContextChars
                                        THEN Len(extracted_text)
                                        ELSE PromptContextChars),
                        question |-> question[1]]
        ask == should_ask(gemini_available, question)
        ok(understanding) ==
            [success |-> TRUE, organ |-> "document", who_reads |-> who_reads,
             file_path |-> path, file_type |-> file_type,
             extracted_text |-> extracted_text, understanding |-> understanding]
    IN  IF cached = None /\ d.raised
        THEN [out |-> Ret(doc_error("File not found"), 0, <<>>, 0),
              rows |-> rows, extracted |-> FALSE]
        ELSE IF cached = None /\ store_err
        THEN [out |-> Ret(doc_error("Document reading error: cache store"), 0, <<>>, 0),
              rows |-> rows, extracted |-> TRUE]
        ELSE IF ask /\ inf = "raise"
        THEN [out |-> Ret(doc_error("Document reading error: inference failed"),
                          0, <<full_prompt>>, 0),
              rows |-> rows2, extracted |-> (cached = None)]
        ELSE IF ask
        THEN [out |-> Ret(ok(Reply(full_prompt)), 0, <<full_prompt>>, 0),
              rows |-> rows2, extracted |-> (cached = None)]
        ELSE [out |-> Ret(ok(summary), 0, <<>>, 0),
              rows |-> rows2, extracted |-> (cached = None)]

\* read_file as one step, no other process touching the file meanwhile
read_file(rows, path, file, question, who_reads, has_gemini, pypdf, inf) ==
    IF file = None
    THEN [out |-> Ret(doc_error("File not found"), 0, <<>>, 0),
          rows |-> rows, extracted |-> FALSE]
    ELSE read_file_rest(rows, path, get_file_hash(file[1]), file, question,
                        who_reads, has_gemini, pypdf, FALSE, FALSE, inf)

----------------------------------------------------------------------------
(* Conversation store: src/arianna.py, and its reader in src/api_server.py *)

MaxEvents == 3
Procs == {"p1", "p2"}
Events == {"E1", "E2", "E3"}
Limits == {1, 2, 50}

DB_PATH == "~/.arianna/resonance.sqlite3"
history_db_path == "~/.arianna/db/resonance.sqlite3"
StorePaths == {DB_PATH, history_db_path}

\* CREATE TABLE IF NOT EXISTS resonance_notes (id, ts, role, content)
resonance_notes == [columns |-> {"id", "ts", "role", "content"}, rows |-> <<>>]

\* the store after _init_db, nothing at the path get_history opens
DbInit ==
    [files |-> [f \in StorePaths |-> IF f = DB_PATH THEN Some(resonance_notes) ELSE None],
     lock |-> "free", clock |-> 0, started |-> 0, done |-> <<>>, overlapped |-> FALSE]

LogIdle == [p \in Procs |-> [pc |-> "idle"]]

\* a database opened without locking: every connection may write at once
can_write_unlocked(lock) == TRUE

\* sqlite lets one connection at a time hold the write lock
can_write(lock) == lock = "free"

\* INSERT INTO resonance_notes (ts, role, content): id is AUTOINCREMENT
insert_row(rows, ts, role, content) ==
    Append(rows, [id |-> Len(rows) + 1, ts |-> ts, role |-> role, content |-> content])

\* log_event: sqlite3.connect
LogEventConnect(p) ==
    /\ log[p].pc = "idle"
    /\ db.started < MaxEvents
    /\ \E content \in Events :
         log' = [log EXCEPT ![p] = [pc |-> "connected", content |-> content,
                                    role |-> "system"]]
    /\ db' = [db EXCEPT !.started = @ + 1,
                        !.overlapped = @ \/ (\E q \in Procs : log[q].pc # "idle")]
    /\ UNCHANGED <<env, call, result, raised, captures, prompts, files, cache, rf,
                   lastStore, lookup, prevDefault, pm, deep, hist,
                   ext, mon, chat, up>>

\* log_event: conn.execute(INSERT ...) once the write lock is free; the row is
\* added to this connection's copy of the table, with utcnow() as ts
LogEventInsert(p) ==
    /\ log[p].pc = "connected"
    /\ can_write(db.lock)
    /\ log' = [log EXCEPT ![p] =
            [pc |-> "inserted", content |-> log[p].content,
             page |-> insert_row(db.files[DB_PATH][1].rows, db.clock,
                                 log[p].role, log[p].content)]]
    /\ db' = [db EXCEPT !.lock = p, !.clock = @ + 1]
    /\ UNCHANGED <<env, call, result, raised, captures, prompts, files, cache, rf,
                   lastStore, lookup, prevDefault, pm, deep, hist,
                   ext, mon, chat, up>>

\* log_event: conn.commit() and return
LogEventCommit(p) ==
    /\ log[p].pc = "inserted"
    /\ db' = [db EXCEPT !.files[DB_PATH] = Some([@[1] EXCEPT !.rows = log[p].page]),
                        !.lock = "free",
                        !.done = Append(@, log[p].content)]
    /\ log' = [log EXCEPT ![p] = [pc |-> "idle"]]
    /\ UNCHANGED <<env, call, result, raised, captures, prompts, files, cache, rf,
                   lastStore, lookup, prevDefault, pm, deep, hist,
                   ext, mon, chat, up>>

\* log_event: the lock stayed busy for timeout=30 seconds, OperationalError
LogEventTimeout(p) ==
    /\ log[p].pc = "connected"
    /\ ~can_write(db.lock)
    /\ log' = [log EXCEPT ![p] = [pc |-> "idle"]]
    /\ UNCHANGED <<env, call, result, raised, captures, prompts, files, cache, rf,
                   lastStore, lookup, prevDefault, pm, deep, db, hist,
                   ext, mon, chat, up>>

LastRows(rows, limit) ==
    SubSeq(rows, IF Len(rows) > limit THEN Len(rows) - limit + 1 ELSE 1, Len(rows))

\* a JSON answer with status 200, and the answer FastAPI gives for
\* HTTPException(status_code=500, detail=...)
http_ok(body) == [status |-> 200, body |-> body]
http_error(detail) == [status |-> 500, body |-> [detail |-> detail]]

\* GET /history: SELECT timestamp, role, content ... ORDER BY timestamp DESC
\* LIMIT ?, reversed; rows are in ts order.  history is given by its contents
get_history(store_files, limit) ==
    IF store_files[history_db_path] = None
    THEN http_ok([success |-> TRUE, history |-> <<>>, count |-> 0])
    ELSE LET table == store_files[history_db_path][1]
             last == LastRows(table.rows, limit)
         IN  IF ~({"timestamp", "role", "content"} \subseteq table.columns)
             THEN http_error(<<"no such column: timestamp">>)
             ELSE http_ok([success |-> TRUE,
                           history |-> [k \in 1..Len(last) |-> last[k].content],
                           count |-> Len(last)])

\* hist keeps the limit asked, the events appended before the request and the
\* number of orchestrator calls the endpoint made
GetHistory ==
    /\ \E limit \in Limits :
         hist' = Some([limit |-> limit, appended |-> db.done,
                       orchestrator_calls |-> 0,
                       answer |-> get_history(db.files, limit)])
    /\ UNCHANGED <<env, call, result, raised, captures, prompts, files, cache, rf,
                   lastStore, lookup, prevDefault, pm, deep, db, log,
                   ext, mon, chat, up>>

----------------------------------------------------------------------------
(* State of the organ-level specifications *)

NoCall == [op |-> "none"]
RfIdle == [pc |-> "idle"]
PmIdle == [pc |-> "idle"]
DeepIdle == [pc |-> "idle"]
ExtIdle == [pc |-> "idle"]
\* the upload directory of the API server, and its /photo requests
MaxSecond == 2
Requests == {"r1", "r2"}

\* the bytes each client uploads
Uploaded(r) == IF r = "r1" THEN <<"A">> ELSE <<"B">>

\* UPLOAD_DIR / f"photo_{datetime.now().strftime('%Y%m%d_%H%M%S')}.jpg": one
\* name per second of the clock
upload_path(now, r) == <<"photo", now>>

UploadNames == {upload_path(t, r) : t \in 0..MaxSecond, r \in Requests}

\* an empty upload directory, no request received
UpInit ==
    [dir |-> [n \in UploadNames |-> None], now |-> 0,
     req |-> [r \in Requests |-> [pc |-> "idle"]]]

\* AriannaAgent(): no assistant created yet, no chat call made
ChatInit == [pc |-> "idle", assistant_id |-> FALSE, thread_id |-> FALSE]
\* AriannaScreen() as the module constructs it, no continuous call made yet
MonInit == [monitoring_mode |-> "off", is_monitoring |-> FALSE, pc |-> "idle", now |-> 0, listen |-> "idle"]
NoLookup == [op |-> "none"]

NoDefault == [op |-> "none"]

\* the organs' availability flags, as their constructors set them
vision_available == env.genai /\ env.api_key
hearing_available == env.genai /\ env.api_key
\* _initialize_gemini without the `if not self.api_key` test
gemini_available_unchecked == env.genai

gemini_available == env.genai /\ env.api_key
\* arianna_screen.VISION_AVAILABLE: `from .arianna_vision import ...` worked
screen_VISION_AVAILABLE == env.genai
termux_available == env.termux

\* the question a submitted prompt carries (Screen wraps it in its context)
AskedQuestion(c, q) ==
    IF c.op = "see_screen" THEN SubSeq(q.question, 4, Len(q.question))
    ELSE q.question

\* a call made by one of the two personas with no question that submitted a
\* prompt: the prompt carries a default question
UsedDefault(c, submitted) ==
    /\ c.op # "none" /\ c.who \in {MAIN, INNER}
    /\ ~Truthy(c.question) /\ submitted # <<>>

\* history: the last call before the current one that used a default question
Track(track) ==
    IF track /\ UsedDefault(call, prompts)
    THEN prevDefault' = [op |-> call.op, who |-> call.who,
                         question |-> AskedQuestion(call, prompts[1])]
    ELSE UNCHANGED prevDefault

\* an operation returns: its inputs and its outcome become the state
Finish(track, c, out) ==
    /\ call' = c
    /\ result' = out.result
    /\ raised' = out.raised
    /\ captures' = out.captures
    /\ prompts' = out.prompts
    /\ Track(track)

SeeImage(track) ==
    /\ rf.pc = "idle" /\ env.genai
    /\ \E image \in InputStates, q \in Questions, who \in WhoValues, inf \in InfOutcomes :
         Finish(track,
                [op |-> "see_image", organ |-> "vision", who |-> who, question |-> q,
                 available |-> vision_available, input |-> image,
                 capture_ok |-> TRUE, inf |-> inf],
                see_image(vision_available, image, q, who, inf))
    /\ UNCHANGED <<env, files, cache, rf, lastStore, lookup, pm, deep, db, log, hist,
                   ext, mon, chat, up>>

WatchVideo(track) ==
    /\ rf.pc = "idle" /\ env.genai
    /\ \E q \in Questions, who \in WhoValues, inf \in InfOutcomes :
         Finish(track,
                [op |-> "watch_video", organ |-> "vision", who |-> who, question |-> q,
                 available |-> vision_available, input |-> "ok",
                 capture_ok |-> TRUE, inf |-> inf],
                watch_video(vision_available, q, who, inf))
    /\ UNCHANGED <<env, files, cache, rf, lastStore, lookup, pm, deep, db, log, hist,
                   ext, mon, chat, up>>

HearAudio(track) ==
    /\ rf.pc = "idle" /\ env.genai
    /\ \E audio \in InputStates, q \in Questions, who \in WhoValues, inf \in InfOutcomes :
         Finish(track,
                [op |-> "hear_audio", organ |-> "hearing", who |-> who, question |-> q,
                 available |-> hearing_available, input |-> audio,
                 capture_ok |-> TRUE, inf |-> inf],
                hear_audio(hearing_available, audio, q, who, inf))
    /\ UNCHANGED <<env, files, cache, rf, lastStore, lookup, pm, deep, db, log, hist,
                   ext, mon, chat, up>>

SeeScreen(track) ==
    /\ rf.pc = "idle"
    /\ \E q \in Questions, who \in WhoValues, save \in BOOLEAN,
          shot_ok \in BOOLEAN, inf \in InfOutcomes :
         LET out == see_screen(screen_VISION_AVAILABLE, termux_available,
                               vision_available, q, who, save, shot_ok, inf)
         IN  Finish(track,
                    [op |-> "see_screen", organ |-> "screen", who |-> who,
                     question |-> q,
                     available |-> screen_VISION_AVAILABLE /\ termux_available,
                     input |-> "ok", capture_ok |-> shot_ok, inf |-> inf,
                     save_screenshot |-> save, shots_left |-> out.shots_left],
                    out)
    /\ UNCHANGED <<env, files, cache, rf, lastStore, lookup, pm, deep, db, log, hist,
                   ext, mon, chat, up>>

\* read_file up to and including _get_file_hash: a missing file ends the call
\* with the FileNotFoundError result, else the hash of the content read is kept
ReadFileBegin(track, whos, questions) ==
    /\ rf.pc = "idle" /\ env.genai
    /\ \E path \in Paths, q \in questions, who \in whos :
         LET c == [op |-> "read_file", organ |-> "document", who |-> who,
                   question |-> q, available |-> gemini_available, path |-> path,
                   input |-> IF files[path] = None THEN "missing" ELSE "ok",
                   capture_ok |-> TRUE]
         IN  IF files[path] = None
             THEN /\ Finish(track, c @@ [inf |-> "ok", cache_err |-> FALSE,
                                         stale |-> FALSE, hit |-> FALSE,
                                         hashed |-> None],
                            Ret(doc_error("File not found"), 0, <<>>, 0))
                  /\ UNCHANGED rf
             ELSE /\ rf' = [pc |-> "hashed", call |-> c,
                            file_hash |-> get_file_hash(files[path][1]),
                            hashed |-> files[path][1]]
                  /\ UNCHANGED <<call, result, raised, captures, prompts, prevDefault, deep, db,
                   log, hist, ext, mon, chat, up>>
    /\ UNCHANGED <<env, files, cache, lastStore, lookup, pm, deep, db, log, hist,
                   ext, mon, chat, up>>

\* read_file from _get_cached to its return.  cache_errors: whether sqlite3 can
\* fail during this call
ReadFileEnd(track, cache_errors) ==
    /\ rf.pc = "hashed"
    /\ \E lookup_err \in cache_errors, store_err \in cache_errors, inf \in InfOutcomes :
         LET c == rf.call
             r == read_file_rest(cache, c.path, rf.file_hash, files[c.path],
                                 c.question, c.who, gemini_available, env.pypdf,
                                 lookup_err, store_err, inf)
         IN  /\ Finish(track,
                       c @@ [inf |-> inf,
                             cache_err |-> lookup_err \/ (r.extracted /\ store_err),
                             stale |-> files[c.path] # Some(rf.hashed),
                             hashed |-> Some(rf.hashed),
                             hit |-> ~lookup_err
                                     /\ get_cached(cache, c.path, rf.file_hash) # None],
                       r.out)
             /\ cache' = r.rows
    /\ rf' = RfIdle
    /\ UNCHANGED <<env, files, lastStore, lookup, pm, deep, db, log, hist, ext, mon,
                   chat, up>>

\* another process writes or removes a file
FileWrite ==
    /\ \E path \in Paths, content \in Contents :
         /\ files[path] # Some(content)
         /\ files' = [files EXCEPT ![path] = Some(content)]
    /\ UNCHANGED <<env, call, result, raised, captures, prompts, cache, rf,
                   lastStore, lookup, prevDefault, pm, deep, db,
                   log, hist, ext, mon, chat, up>>

FileDelete ==
    /\ \E path \in Paths :
         /\ files[path] # None
         /\ files' = [files EXCEPT ![path] = None]
    /\ UNCHANGED <<env, call, result, raised, captures, prompts, cache, rf,
                   lastStore, lookup, prevDefault, pm, deep, db,
                   log, hist, ext, mon, chat, up>>

Hosts == [genai : BOOLEAN, api_key : BOOLEAN, termux : BOOLEAN, pypdf : BOOLEAN,
          camera_tool : BOOLEAN, mic_tool : BOOLEAN]

InitRest ==
    /\ call = NoCall /\ result = None /\ raised = FALSE
    /\ captures = 0 /\ prompts = <<>>
    /\ cache = {} /\ rf = RfIdle
    /\ lastStore = [p \in Paths |-> [count |-> 0, row |-> None]]
    /\ lookup = NoLookup
    /\ prevDefault = NoDefault
    /\ pm = PmIdle
    /\ deep = DeepIdle
    /\ ext = ExtIdle
    /\ mon = MonInit
    /\ chat = ChatInit
    /\ up = UpInit

InitCommon ==
    /\ InitRest
    /\ db = DbInit
    /\ log = LogIdle
    /\ hist = None

\* The organs called one at a time on a host of any kind; notes.txt exists,
\* paper.pdf does not
InitOrgan ==
    /\ InitCommon
    /\ env \in {h \in Hosts : h.pypdf /\ ~h.camera_tool /\ ~h.mic_tool}
    /\ files = [p \in Paths |-> IF p = "notes.txt" THEN Some(TextA) ELSE None]

NextOrgan ==
    \/ SeeImage(FALSE)
    \/ WatchVideo(FALSE)
    \/ HearAudio(FALSE)
    \/ SeeScreen(FALSE)
    \/ ReadFileBegin(FALSE, WhoValues, Questions)
    \/ ReadFileEnd(FALSE, {FALSE})

SpecOrgan == InitOrgan /\ [][NextOrgan]_vars

\* The organs called one at a time on a host with every package and tool, with
\* the default questions they use recorded
InitPrompt ==
    /\ InitCommon
    /\ env \in {h \in Hosts : h.genai /\ h.termux /\ h.pypdf
                              /\ ~h.camera_tool /\ ~h.mic_tool}
    /\ files = [p \in Paths |-> IF p = "notes.txt" THEN Some(TextA) ELSE None]

NextPrompt ==
    \/ SeeImage(TRUE)
    \/ WatchVideo(TRUE)
    \/ HearAudio(TRUE)
    \/ SeeScreen(TRUE)
    \/ ReadFileBegin(TRUE, WhoValues, Questions)
    \/ ReadFileEnd(TRUE, {FALSE})

SpecPrompt == InitPrompt /\ [][NextPrompt]_vars

\* read_file by the main persona racing with other processes that write and
\* remove the files, on a host with the credential where sqlite3 can fail
InitDoc ==
    /\ InitCommon
    /\ env \in {h \in Hosts : h.genai /\ h.api_key /\ h.pypdf /\ ~h.termux
                              /\ ~h.camera_tool /\ ~h.mic_tool}
    /\ files = [p \in Paths |-> IF p = "notes.txt" THEN Some(TextA) ELSE Some(PdfB)]

NextDoc ==
    \/ ReadFileBegin(FALSE, {MAIN}, {None, Some(<<"What is it?">>)})
    \/ ReadFileEnd(FALSE, BOOLEAN)
    \/ FileWrite
    \/ FileDelete

SpecDoc == InitDoc /\ [][NextDoc]_vars

----------------------------------------------------------------------------
(* The cache operations called directly *)

MaxStores == 2
FileTypes == {"TEXT", "PDF"}
Texts == {TextA, <<"delta">>}
Summaries == {<<"TEXT", "document with", "3", "words.">>, <<"a summary">>}

SaveCache ==
    /\ \E path \in Paths, file_hash \in Hashes, file_type \in FileTypes,
          extracted_text \in Texts, summary \in Summaries :
         /\ lastStore[path].count < MaxStores
         /\ cache' = save_cache(cache, path, file_hash, file_type,
                                extracted_text, summary)
         /\ lastStore' = [lastStore EXCEPT ![path] =
                [count |-> @.count + 1,
                 row |-> Some([path |-> path, file_hash |-> file_hash,
                               file_type |-> file_type,
                               extracted_text |-> extracted_text,
                               summary |-> summary])]]
    /\ lookup' = NoLookup
    /\ UNCHANGED <<env, call, result, raised, captures, prompts, files, rf,
                   prevDefault, pm, deep, db, log, hist, ext, mon,
                   chat, up>>

GetCached ==
    /\ \E path \in Paths, file_hash \in Hashes :
         lookup' = [op |-> "get", path |-> path, file_hash |-> file_hash,
                    answer |-> get_cached(cache, path, file_hash)]
    /\ UNCHANGED <<env, call, result, raised, captures, prompts, files, cache, rf,
                   lastStore, prevDefault, pm, deep, db, log, hist,
                   ext, mon, chat, up>>

InitCache ==
    /\ InitCommon
    /\ env \in {h \in Hosts : h.genai /\ h.api_key /\ h.pypdf /\ ~h.termux
                              /\ ~h.camera_tool /\ ~h.mic_tool}
    /\ files = [p \in Paths |-> None]

NextCache ==
    \/ SaveCache
    \/ GetCached

SpecCache == InitCache /\ [][NextCache]_vars


\* Two processes appending to the conversation store and a client asking
\* for the history; at the path get_history opens there is no file, or a copy
\* of the store
InitStore ==
    /\ InitRest
    /\ env \in {h \in Hosts : h.genai /\ h.api_key /\ h.pypdf /\ ~h.termux
                              /\ ~h.camera_tool /\ ~h.mic_tool}
    /\ files = [p \in Paths |-> None]
    /\ db \in {DbInit,
               [DbInit EXCEPT !.files[history_db_path] = Some(resonance_notes)]}
    /\ log = LogIdle
    /\ hist = None

NextStore ==
    \/ \E p \in Procs : LogEventConnect(p)
    \/ \E p \in Procs : LogEventInsert(p)
    \/ \E p \in Procs : LogEventCommit(p)
    \/ \E p \in Procs : LogEventTimeout(p)
    \/ GetHistory

SpecStore == InitStore /\ [][NextStore]_vars

----------------------------------------------------------------------------
(* Sensor bridges and the orchestrator: src/sensors, src/orchestrator.py *)

\* the names a module defines at its top level
ModuleNames(module) ==
    IF module = "sensors.camera_bridge"
    THEN {"AriannaCameraBridge", "arianna_camera", "see_world"}
    ELSE IF module = "sensors.microphone_bridge"
    THEN {"AriannaMicrophoneBridge", "arianna_microphone", "hear_world"}
    ELSE {}

\* `from module import name` raises ImportError unless the module defines name
ImportSucceeds(module, name) == name \in ModuleNames(module)

\* the orchestrator's module-level flags: TRUE iff the import in the try
\* block worked
VISION_AVAILABLE == env.genai
HEARING_AVAILABLE == env.genai
SCREEN_AVAILABLE == TRUE
CAMERA_AVAILABLE == ImportSucceeds("sensors.camera_bridge", "CameraBridge")

MICROPHONE_AVAILABLE_imported == TRUE

MICROPHONE_AVAILABLE == ImportSucceeds("sensors.microphone_bridge", "MicrophoneBridge")

take_photo_params == {"camera", "description"}
record_audio_params == {"duration", "description"}

\* a call with keyword arguments raises TypeError unless each one names a
\* parameter
AcceptsKeywords(params, keywords) == keywords \subseteq params

\* take_photo: None without termux-camera-photo, else one subprocess call
\* whose file exists afterwards or not
take_photo(camera_available, photo_ok) ==
    IF ~camera_available THEN [path |-> None, captures |-> 0]
    ELSE IF photo_ok THEN [path |-> Some("photo.jpg"), captures |-> 1]
    ELSE [path |-> None, captures |-> 1]

\* record_audio: None without termux-microphone-record, else one recording
\* whose file exists afterwards or not
record_audio(microphone_available, rec_ok) ==
    IF ~microphone_available THEN [path |-> None, captures |-> 0]
    ELSE IF rec_ok THEN [path |-> Some("audio.ogg"), captures |-> 1]
    ELSE [path |-> None, captures |-> 1]

\* see_world with take_photo=True
see_world(question, who, photo_ok, inf) ==
    IF ~VISION_AVAILABLE
    THEN Ret([success |-> FALSE, error |-> "Vision module not available"], 0, <<>>, 0)
    ELSE IF ~CAMERA_AVAILABLE
    THEN Ret([success |-> FALSE, error |-> "Camera not available"], 0, <<>>, 0)
    ELSE IF ~AcceptsKeywords(take_photo_params, {})
    THEN Raise("TypeError", 0, <<>>, 0)
    ELSE LET shot == take_photo(env.camera_tool, photo_ok)
         IN  IF shot.path = None
             THEN Ret([success |-> FALSE, error |-> "Failed to take photo"],
                      shot.captures, <<>>, 0)
             ELSE LET v == see_image(vision_available, "ok", question, who, inf)
                  IN  [v EXCEPT !.captures = @ + shot.captures, !.shots_left = 1]

hear_world(question, who, rec_ok, inf) ==
    IF ~HEARING_AVAILABLE
    THEN Ret([success |-> FALSE, error |-> "Hearing module not available"], 0, <<>>, 0)
    ELSE IF ~MICROPHONE_AVAILABLE
    THEN Ret([success |-> FALSE, error |-> "Microphone not available"], 0, <<>>, 0)
    ELSE IF ~AcceptsKeywords(record_audio_params, {"duration_seconds"})
    THEN Raise("TypeError", 0, <<>>, 0)
    ELSE LET rec == record_audio(env.mic_tool, rec_ok)
         IN  IF rec.path = None
             THEN Ret([success |-> FALSE, error |-> "Failed to record audio"],
                      rec.captures, <<>>, 0)
             ELSE LET h == hear_audio(hearing_available, "ok", question, who, inf)
                  IN  [h EXCEPT !.captures = @ + rec.captures, !.shots_left = 1]

Orchestrator_see_screen(question, who, save, shot_ok, inf) ==
    IF ~SCREEN_AVAILABLE
    THEN Ret([success |-> FALSE, error |-> "Screen module not available"], 0, <<>>, 0)
    ELSE see_screen(screen_VISION_AVAILABLE, termux_available, vision_available,
                    question, who, save, shot_ok, inf)

EmptyDict == [k \in {} |-> <<>>]

\* test_emergent_perception's verdict on the aggregate perceive_moment returned
test_emergent_perception(perceptions) == Cardinality(DOMAIN perceptions.organs) > 0

\* /perceive answering success only when an organ contributed
api_perceive_by_contribution(perceptions, who) ==
    [success |-> DOMAIN perceptions.organs # {},
     perceptions |-> perceptions.organs, who |-> who]

\* the /perceive endpoint's answer for an aggregate perceive_moment returned
api_perceive(perceptions, who) ==
    [success |-> TRUE, perceptions |-> perceptions.organs, who |-> who]

\* perceive_moment, one action per organ block.  pm.organs is
\* perceptions["organs"]; pm.contributed, pm.failed, pm.skipped and pm.captures
\* (capture calls per organ attempted) record what each block did
PMStart ==
    /\ pm.pc \in {"idle", "done", "raised"}
    /\ \E who \in WhoValues, include_screen \in BOOLEAN :
         pm' = [pc |-> "vision", who |-> who, include_screen |-> include_screen,
                organs |-> EmptyDict, contributed |-> {}, failed |-> {},
                skipped |-> {}, captures |-> EmptyDict, response |-> None]
    /\ UNCHANGED <<env, call, result, raised, captures, prompts, files, cache, rf,
                   lastStore, lookup, prevDefault, deep, db, log,
                   hist, ext, mon, chat, up>>

\* `if x_result.get("success"): perceptions["organs"][organ] = x_result[key]`
Contribute(organ, o, key, next) ==
    pm' = IF o.raised THEN [pm EXCEPT !.pc = "raised"]
          ELSE IF GetBool(o.result[1], "success")
          THEN [pm EXCEPT !.pc = next,
                          !.organs = (organ :> o.result[1][key]) @@ @,
                          !.contributed = @ \cup {<<organ, o.result[1][key]>>},
                          !.captures = (organ :> Str(o.captures)) @@ @]
          ELSE [pm EXCEPT !.pc = next, !.failed = @ \cup {organ},
                          !.captures = (organ :> Str(o.captures)) @@ @]

Skip(organ, next) ==
    pm' = [pm EXCEPT !.pc = next, !.skipped = @ \cup {organ}]

PMVision ==
    /\ pm.pc = "vision"
    /\ IF VISION_AVAILABLE /\ CAMERA_AVAILABLE
       THEN \E photo_ok \in BOOLEAN, inf \in InfOutcomes :
              Contribute("vision",
                         see_world(Some(<<"What do I see right now?">>), pm.who,
                                   photo_ok, inf),
                         "perception", "screen")
       ELSE Skip("vision", "screen")
    /\ UNCHANGED <<env, call, result, raised, captures, prompts, files, cache, rf,
                   lastStore, lookup, prevDefault, deep, db, log,
                   hist, ext, mon, chat, up>>

PMScreen ==
    /\ pm.pc = "screen"
    /\ IF pm.include_screen /\ SCREEN_AVAILABLE
       THEN \E shot_ok \in BOOLEAN, inf \in InfOutcomes :
              Contribute("screen",
                         Orchestrator_see_screen(Some(<<"What's on my screen?">>),
                                                 pm.who, FALSE, shot_ok, inf),
                         "screen_perception", "hearing")
       ELSE Skip("screen", "hearing")
    /\ UNCHANGED <<env, call, result, raised, captures, prompts, files, cache, rf,
                   lastStore, lookup, prevDefault, deep, db, log,
                   hist, ext, mon, chat, up>>

PMHearing ==
    /\ pm.pc = "hearing"
    /\ IF HEARING_AVAILABLE /\ MICROPHONE_AVAILABLE
       THEN \E rec_ok \in BOOLEAN, inf \in InfOutcomes :
              Contribute("hearing",
                         hear_world(Some(<<"What do I hear?">>), pm.who, rec_ok, inf),
                         "perception", "return")
       ELSE Skip("hearing", "return")
    /\ UNCHANGED <<env, call, result, raised, captures, prompts, files, cache, rf,
                   lastStore, lookup, prevDefault, deep, db, log,
                   hist, ext, mon, chat, up>>

PMReturn ==
    /\ pm.pc = "return"
    /\ pm' = [pm EXCEPT !.pc = "done", !.response = Some(api_perceive(pm, pm.who))]
    /\ UNCHANGED <<env, call, result, raised, captures, prompts, files, cache, rf,
                   lastStore, lookup, prevDefault, deep, db, log,
                   hist, ext, mon, chat, up>>

\* perceive_moment called again and again on a host of any kind
InitOrch ==
    /\ InitCommon
    /\ env \in {h \in Hosts : h.pypdf}
    /\ files = [p \in Paths |-> None]

NextOrch ==
    \/ PMStart
    \/ PMVision
    \/ PMScreen
    \/ PMHearing
    \/ PMReturn

SpecOrch == InitOrch /\ [][NextOrch]_vars

----------------------------------------------------------------------------
(* read_and_see: src/orchestrator.py *)

DOCUMENT_AVAILABLE == env.genai

Orchestrator_read_file(rows, path, question, who, inf) ==
    IF ~DOCUMENT_AVAILABLE
    THEN [out |-> Ret([success |-> FALSE, error |-> "Document module not available"],
                      0, <<>>, 0),
          rows |-> rows, extracted |-> FALSE]
    ELSE read_file(rows, path, files[path], question, who, gemini_available,
                   env.pypdf, inf)

\* f"Is {Path(file_path).name} open on screen?"
open_on_screen_question(path) == Some(<<"Is", path, "open on screen?">>)

\* result["perceptions"] after the two `if x_result.get("success")` blocks
merge_perceptions(doc_out, screen_out) ==
    LET with_doc == IF GetBool(doc_out.result[1], "success")
                    THEN "document" :> doc_out.result[1].understanding
                    ELSE EmptyDict
    IN  IF GetBool(screen_out.result[1], "success")
        THEN ("screen" :> screen_out.result[1].screen_perception) @@ with_doc
        ELSE with_doc

\* the screen looked at only after the document was read with success
read_and_see_chained(rows, path, who, shot_ok, inf_doc, inf_screen) ==
    LET doc == Orchestrator_read_file(rows, path, None, who, inf_doc)
        scr == Orchestrator_see_screen(open_on_screen_question(path), who, FALSE,
                                       shot_ok, inf_screen)
        perceptions == IF GetBool(doc.out.result[1], "success")
                       THEN merge_perceptions(doc.out, scr)
                       ELSE EmptyDict
    IN  [out |-> Ret([file_path |-> path, who |-> who, perceptions |-> perceptions],
                     scr.captures, doc.out.prompts \o scr.prompts, scr.shots_left),
         rows |-> doc.rows, doc |-> doc.out, screen |-> scr]

read_and_see(rows, path, who, shot_ok, inf_doc, inf_screen) ==
    LET doc == Orchestrator_read_file(rows, path, None, who, inf_doc)
        scr == Orchestrator_see_screen(open_on_screen_question(path), who, FALSE,
                                       shot_ok, inf_screen)
    IN  [out |-> Ret([file_path |-> path, who |-> who,
                      perceptions |-> merge_perceptions(doc.out, scr)],
                     scr.captures, doc.out.prompts \o scr.prompts, scr.shots_left),
         rows |-> doc.rows, doc |-> doc.out, screen |-> scr]

\* call.doc and call.screen keep what each channel answered
ReadAndSee ==
    /\ \E path \in Paths, who \in WhoValues, shot_ok \in BOOLEAN,
          inf_doc \in InfOutcomes, inf_screen \in InfOutcomes :
         LET r == read_and_see(cache, path, who, shot_ok, inf_doc, inf_screen)
         IN  /\ call' = [op |-> "read_and_see", path |-> path, who |-> who,
                         doc |-> r.doc.result[1], screen |-> r.screen.result[1]]
             /\ result' = r.out.result
             /\ raised' = r.out.raised
             /\ captures' = r.out.captures
             /\ prompts' = r.out.prompts
             /\ cache' = r.rows
    /\ UNCHANGED <<env, files, rf, lastStore, lookup, prevDefault, pm, deep, db, log,
                   hist, ext, mon, chat, up>>

\* read_and_see called again and again on a host of any kind; notes.txt
\* exists, paper.pdf does not
InitMerge ==
    /\ InitCommon
    /\ env \in {h \in Hosts : h.pypdf /\ ~h.camera_tool /\ ~h.mic_tool}
    /\ files = [p \in Paths |-> IF p = "notes.txt" THEN Some(TextA) ELSE None]

NextMerge == ReadAndSee

SpecMerge == InitMerge /\ [][NextMerge]_vars

----------------------------------------------------------------------------
(* API facade: src/api_server.py *)

Orchestrator_see_image(image, question, who, inf) ==
    IF ~VISION_AVAILABLE
    THEN Ret([success |-> FALSE, error |-> "Vision module not available"], 0, <<>>, 0)
    ELSE see_image(vision_available, image, question, who, inf)

Orchestrator_hear_audio(audio, question, who, inf) ==
    IF ~HEARING_AVAILABLE
    THEN Ret([success |-> FALSE, error |-> "Hearing module not available"], 0, <<>>, 0)
    ELSE hear_audio(hearing_available, audio, question, who, inf)

\* the tail shared by /photo, /voice and /screen: the perception on success,
\* else HTTPException(500, detail=result.get("error")), caught by the
\* endpoint's own `except Exception` and raised again as a 500
api_answer(o, key, who) ==
    IF o.raised THEN http_error(<<"error">>)
    ELSE IF GetBool(o.result[1], "success")
    THEN http_ok([success |-> TRUE, perception |-> o.result[1][key], who |-> who])
    ELSE http_error(<<o.result[1].error>>)

\* POST /chat: a stub, the orchestrator is not called
api_chat(message, who) ==
    [answer |-> http_ok([success |-> TRUE,
                         response |-> <<who, "ARIANNA", "Received:", message>>,
                         who |-> who]),
     orchestrator_calls |-> 0]

\* POST /photo: the upload is saved, then orchestrator.see_image
api_analyze_photo(question, who, inf) ==
    [answer |-> api_answer(Orchestrator_see_image("ok", question, who, inf),
                           "perception", who),
     orchestrator_calls |-> 1]

\* POST /voice: the upload is saved, then orchestrator.hear_audio
api_analyze_voice(question, who, inf) ==
    [answer |-> api_answer(Orchestrator_hear_audio("ok", question, who, inf),
                           "perception", who),
     orchestrator_calls |-> 1]

\* POST /screen
api_see_screen(question, who, shot_ok, inf) ==
    [answer |-> api_answer(Orchestrator_see_screen(question, who, FALSE, shot_ok, inf),
                           "screen_perception", who),
     orchestrator_calls |-> 1]

ApiAnswer(endpoint, r) ==
    /\ call' = [op |-> "api", endpoint |-> endpoint,
                orchestrator_calls |-> r.orchestrator_calls]
    /\ result' = Some(r.answer)

ApiChat ==
    /\ \E message \in {"hello"}, who \in WhoValues :
         ApiAnswer("/chat", api_chat(message, who))
    /\ UNCHANGED <<env, raised, captures, prompts, files, cache, rf, lastStore,
                   lookup, prevDefault, pm, deep, db, log, hist,
                   ext, mon, chat, up>>

ApiPhoto ==
    /\ \E q \in Questions, who \in WhoValues, inf \in InfOutcomes :
         ApiAnswer("/photo", api_analyze_photo(q, who, inf))
    /\ UNCHANGED <<env, raised, captures, prompts, files, cache, rf, lastStore,
                   lookup, prevDefault, pm, deep, db, log, hist,
                   ext, mon, chat, up>>

ApiVoice ==
    /\ \E q \in Questions, who \in WhoValues, inf \in InfOutcomes :
         ApiAnswer("/voice", api_analyze_voice(q, who, inf))
    /\ UNCHANGED <<env, raised, captures, prompts, files, cache, rf, lastStore,
                   lookup, prevDefault, pm, deep, db, log, hist,
                   ext, mon, chat, up>>

ApiScreen ==
    /\ \E q \in Questions, who \in WhoValues, shot_ok \in BOOLEAN, inf \in InfOutcomes :
         ApiAnswer("/screen", api_see_screen(q, who, shot_ok, inf))
    /\ UNCHANGED <<env, raised, captures, prompts, files, cache, rf, lastStore,
                   lookup, prevDefault, pm, deep, db, log, hist,
                   ext, mon, chat, up>>

\* the six endpoints requested again and again on a host of any kind;
\* /perceive is perceive_moment followed by its answer
InitApi ==
    /\ InitCommon
    /\ env \in {h \in Hosts : h.pypdf /\ ~h.camera_tool /\ ~h.mic_tool}
    /\ files = [p \in Paths |-> None]

NextApi ==
    \/ ApiChat
    \/ ApiPhoto
    \/ ApiVoice
    \/ ApiScreen
    \/ GetHistory
    \/ PMStart
    \/ PMVision
    \/ PMScreen
    \/ PMHearing
    \/ PMReturn

SpecApi == InitApi /\ [][NextApi]_vars

----------------------------------------------------------------------------
(* Uploads of /photo: the temporary file of each request *)

\* the handler up to `content = await file.read()`: open(file_path, "wb")
\* creates the file or truncates the one of that name; the descriptor stays
\* on that file
PhotoOpen(r) ==
    /\ up.req[r].pc \in {"idle", "done"}
    /\ LET file_path == upload_path(up.now, r)
           f == up.dir[file_path]
       IN  up' = [up EXCEPT
               !.dir[file_path] =
                   Some([bytes |-> <<>>,
                         fds |-> IF f = None THEN {r} ELSE f[1].fds \cup {r}]),
               !.req[r] = [pc |-> "reading", file_path |-> file_path]]
    /\ UNCHANGED <<env, call, result, raised, captures, prompts, files, cache, rf,
                   lastStore, lookup, prevDefault, pm, deep, db, log, hist, ext, mon, chat>>

\* the rest of the handler, without an await: f.write(content) on the
\* descriptor, orchestrator.see_image(str(file_path)), file_path.unlink(),
\* the answer
PhotoFinish(r) ==
    /\ up.req[r].pc = "reading"
    /\ LET file_path == up.req[r].file_path
           f == up.dir[file_path]
           written == IF f # None /\ r \in f[1].fds
                      THEN Some([bytes |-> Uploaded(r), fds |-> f[1].fds \ {r}])
                      ELSE f
           o == Orchestrator_see_image(IF written = None THEN "missing" ELSE "ok",
                                       None, MAIN, "ok")
       IN  up' = [up EXCEPT
               !.dir[file_path] = None,
               !.req[r] = [pc |-> "done", file_path |-> file_path,
                           analysed |-> IF written = None THEN None
                                        ELSE Some(written[1].bytes),
                           answer |-> api_answer(o, "perception", MAIN)]]
    /\ UNCHANGED <<env, call, result, raised, captures, prompts, files, cache, rf,
                   lastStore, lookup, prevDefault, pm, deep, db, log, hist, ext, mon, chat>>

\* datetime.now() reaches the next second
SecondPasses ==
    /\ up.now < MaxSecond
    /\ up' = [up EXCEPT !.now = @ + 1]
    /\ UNCHANGED <<env, call, result, raised, captures, prompts, files, cache, rf,
                   lastStore, lookup, prevDefault, pm, deep, db, log, hist, ext, mon, chat>>

\* two clients posting photos to a server with the Vision organ available
InitUpload ==
    /\ InitCommon
    /\ env \in {h \in Hosts : h.genai /\ h.api_key /\ h.pypdf /\ ~h.termux
                              /\ ~h.camera_tool /\ ~h.mic_tool}
    /\ files = [p \in Paths |-> None]

NextUpload ==
    \/ \E r \in Requests : PhotoOpen(r)
    \/ \E r \in Requests : PhotoFinish(r)
    \/ SecondPasses

SpecUpload == InitUpload /\ [][NextUpload]_vars

----------------------------------------------------------------------------
(* Blocking boundaries: capture subprocesses and inference calls *)

CaptureOps == {"take_photo", "record_audio", "_take_screenshot"}
InferenceOps == {"see_image", "watch_video", "hear_audio", "read_file"}

\* whether the call that blocks is given a timeout: subprocess.run(...,
\* timeout=...) in the three captures; generate_content(...) is called without
\* one, and the polling loop of _ask_assistants has no bound
has_timeout(op) == op \in CaptureOps

\* a capture operation reaches subprocess.run
CaptureStart ==
    /\ ext.pc \in {"idle", "returned"}
    /\ \E op \in CaptureOps :
         ext' = [pc |-> "waiting", op |-> op, who |-> MAIN, question |-> None,
                 timeout |-> has_timeout(op)]
    /\ UNCHANGED <<env, call, result, raised, captures, prompts, files, cache, rf,
                   lastStore, lookup, prevDefault, pm, deep, db, log, hist,
                   mon, chat, up>>

\* a perceive operation reaches self.model.generate_content
InferenceStart ==
    /\ ext.pc \in {"idle", "returned"}
    /\ \E op \in InferenceOps, who \in WhoValues, q \in Questions :
         ext' = [pc |-> "waiting", op |-> op, who |-> who, question |-> q,
                 timeout |-> has_timeout(op)]
    /\ UNCHANGED <<env, call, result, raised, captures, prompts, files, cache, rf,
                   lastStore, lookup, prevDefault, pm, deep, db, log, hist,
                   mon, chat, up>>

\* chat reaches the polling loop of _ask_assistants: the run is queued or
\* in_progress
ChatStart ==
    /\ ext.pc \in {"idle", "returned"}
    /\ \E q \in Questions :
         ext' = [pc |-> "waiting", op |-> "_ask_assistants", who |-> MAIN,
                 question |-> q, timeout |-> has_timeout("_ask_assistants")]
    /\ UNCHANGED <<env, call, result, raised, captures, prompts, files, cache, rf,
                   lastStore, lookup, prevDefault, pm, deep, db, log, hist,
                   mon, chat, up>>

\* the subprocess ends, the service answers or fails, the run leaves
\* queued / in_progress: the operation returns its outcome
ExtComplete ==
    /\ ext.pc = "waiting"
    /\ \E outcome \in {"success", "failure"} :
         ext' = [pc |-> "returned", op |-> ext.op, who |-> ext.who,
                 question |-> ext.question, timeout |-> ext.timeout,
                 outcome |-> outcome, timed_out |-> FALSE]
    /\ UNCHANGED <<env, call, result, raised, captures, prompts, files, cache, rf,
                   lastStore, lookup, prevDefault, pm, deep, db, log, hist,
                   mon, chat, up>>

\* subprocess.TimeoutExpired, caught: the capture returns None
ExtTimeout ==
    /\ ext.pc = "waiting"
    /\ ext.timeout
    /\ ext' = [pc |-> "returned", op |-> ext.op, who |-> ext.who,
               question |-> ext.question, timeout |-> ext.timeout,
               outcome |-> "failure", timed_out |-> TRUE]
    /\ UNCHANGED <<env, call, result, raised, captures, prompts, files, cache, rf,
                   lastStore, lookup, prevDefault, pm, deep, db, log, hist,
                   mon, chat, up>>

\* operations that block on something external, on a host with everything;
\* the clock runs (a timeout given fires unless the call ended before), the
\* external side need not answer
InitWait ==
    /\ InitCommon
    /\ env \in {h \in Hosts : h.genai /\ h.api_key /\ h.pypdf /\ h.termux
                              /\ h.camera_tool /\ h.mic_tool}
    /\ files = [p \in Paths |-> None]

NextWait ==
    \/ CaptureStart
    \/ InferenceStart
    \/ ChatStart
    \/ ExtComplete
    \/ ExtTimeout

SpecWait == InitWait /\ [][NextWait]_vars /\ WF_vars(ExtTimeout)

----------------------------------------------------------------------------
(* Continuous monitoring: watch_screen_continuous, listen_continuous *)

MaxTime == 3

MonitoringModes == {"off", "on_demand", "continuous"}

\* max_duration_seconds: None, or a number of seconds
MaxDurations == {None, Some(0), Some(1), Some(2)}

\* `max_duration_seconds and (time.time() - start_time) >= max_duration_seconds`
max_duration_reached(max_duration_seconds, start_time, now) ==
    /\ max_duration_seconds # None
    /\ max_duration_seconds[1] # 0
    /\ now - start_time >= max_duration_seconds[1]

\* the finally clause without its assignment
watch_finally_keeps_flag(m, why) == [m EXCEPT !.pc = "returned", !.why = why]

\* the finally clause: the loop is left, is_monitoring is cleared
watch_finally(m, why) ==
    [m EXCEPT !.pc = "returned", !.why = why, !.is_monitoring = FALSE]

\* the call up to the loop: nothing happens in mode OFF
WatchStart ==
    /\ mon.pc \in {"idle", "returned"}
    /\ \E max \in MaxDurations, callback \in BOOLEAN :
         /\ max # None => mon.now + max[1] <= MaxTime
         /\ LET m == [monitoring_mode |-> mon.monitoring_mode,
                      is_monitoring |-> mon.is_monitoring, now |-> mon.now,
                      listen |-> mon.listen, pc |-> "loop",
                      max_duration_seconds |-> max, callback |-> callback,
                      start_time |-> mon.now, shots |-> 0, why |-> "none"]
            IN  mon' = IF mon.monitoring_mode = "off"
                       THEN [m EXCEPT !.pc = "returned", !.why = "off"]
                       ELSE [m EXCEPT !.is_monitoring = TRUE]
    /\ UNCHANGED <<env, call, result, raised, captures, prompts, files, cache, rf,
                   lastStore, lookup, prevDefault, pm, deep, db, log, hist, ext,
                   chat, up>>

\* one pass of the while loop up to its first await: the flag, the duration,
\* then see_screen(save_screenshot=False)
WatchIterate ==
    /\ mon.pc = "loop"
    /\ IF ~mon.is_monitoring
       THEN mon' = watch_finally(mon, "stop")
       ELSE IF max_duration_reached(mon.max_duration_seconds, mon.start_time, mon.now)
       THEN mon' = watch_finally(mon, "max")
       ELSE \E shot_ok \in BOOLEAN, inf \in InfOutcomes :
              LET out == see_screen(screen_VISION_AVAILABLE, termux_available,
                                    vision_available, None, MAIN, FALSE, shot_ok, inf)
              IN  mon' = [mon EXCEPT
                            !.shots = IF out.captures > 0 THEN 1 ELSE @,
                            !.pc = IF GetBool(out.result[1], "success") /\ mon.callback
                                   THEN "callback" ELSE "sleep"]
    /\ UNCHANGED <<env, call, result, raised, captures, prompts, files, cache, rf,
                   lastStore, lookup, prevDefault, pm, deep, db, log, hist, ext,
                   chat, up>>

\* `await callback(result)`: it returns, or it raises and the call ends
WatchCallback ==
    /\ mon.pc = "callback"
    /\ \E raises \in BOOLEAN :
         mon' = IF raises THEN watch_finally(mon, "exception")
                ELSE [mon EXCEPT !.pc = "sleep"]
    /\ UNCHANGED <<env, call, result, raised, captures, prompts, files, cache, rf,
                   lastStore, lookup, prevDefault, pm, deep, db, log, hist, ext,
                   chat, up>>

\* `await asyncio.sleep(self.interval_seconds)` is over
WatchSleep ==
    /\ mon.pc = "sleep"
    /\ mon' = [mon EXCEPT !.pc = "loop"]
    /\ UNCHANGED <<env, call, result, raised, captures, prompts, files, cache, rf,
                   lastStore, lookup, prevDefault, pm, deep, db, log, hist, ext,
                   chat, up>>

StopMonitoring ==
    /\ mon.is_monitoring
    /\ mon' = [mon EXCEPT !.is_monitoring = FALSE]
    /\ UNCHANGED <<env, call, result, raised, captures, prompts, files, cache, rf,
                   lastStore, lookup, prevDefault, pm, deep, db, log, hist, ext,
                   chat, up>>

SetMode ==
    /\ \E mode \in MonitoringModes \ {mon.monitoring_mode} :
         mon' = [mon EXCEPT !.monitoring_mode = mode]
    /\ UNCHANGED <<env, call, result, raised, captures, prompts, files, cache, rf,
                   lastStore, lookup, prevDefault, pm, deep, db, log, hist, ext,
                   chat, up>>

\* time.time() advances
Tick ==
    /\ mon.now < MaxTime
    /\ mon' = [mon EXCEPT !.now = @ + 1]
    /\ UNCHANGED <<env, call, result, raised, captures, prompts, files, cache, rf,
                   lastStore, lookup, prevDefault, pm, deep, db, log, hist, ext,
                   chat, up>>

\* listen_continuous: `from ..sensors.microphone_bridge import MicrophoneBridge`
\* raises ImportError and the call returns before its `while True` loop
ListenContinuous ==
    /\ mon.listen = "idle"
    /\ mon' = [mon EXCEPT !.listen =
                 IF ImportSucceeds("sensors.microphone_bridge", "MicrophoneBridge")
                 THEN "loop" ELSE "returned"]
    /\ UNCHANGED <<env, call, result, raised, captures, prompts, files, cache, rf,
                   lastStore, lookup, prevDefault, pm, deep, db, log, hist, ext,
                   chat, up>>

\* the screen organ watched on a host of any kind; the event loop runs every
\* task that can run
InitWatch ==
    /\ InitCommon
    /\ env \in {h \in Hosts : h.genai /\ h.pypdf /\ ~h.camera_tool /\ ~h.mic_tool}
    /\ files = [p \in Paths |-> None]

NextWatch ==
    \/ WatchStart
    \/ WatchIterate
    \/ WatchCallback
    \/ WatchSleep
    \/ StopMonitoring
    \/ SetMode
    \/ Tick
    \/ ListenContinuous

SpecWatch ==
    /\ InitWatch /\ [][NextWatch]_vars
    /\ WF_vars(WatchIterate) /\ WF_vars(WatchCallback) /\ WF_vars(WatchSleep)

----------------------------------------------------------------------------
(* AriannaAgent.chat and the events it logs: src/arianna.py *)

Messages == {<<"hello">>, <<"what do you see?">>}

\* log_event appends (role, content) unless sqlite3 raises (the store locked
\* for longer than timeout=30)
logged(events, role, content) == Append(events, [role |-> role, content |-> content])

\* chat up to the Assistants attempt: the caller's message is logged
Chat ==
    /\ chat.pc \in {"idle", "returned", "raised"}
    /\ \E message \in Messages, log_ok \in BOOLEAN :
         chat' = [pc |-> IF log_ok THEN "assistants" ELSE "raised",
                  assistant_id |-> chat.assistant_id,
                  thread_id |-> chat.thread_id, message |-> message,
                  events |-> IF log_ok THEN logged(<<>>, "oleg", message) ELSE <<>>,
                  assistants_text |-> FALSE, fallback_called |-> FALSE]
    /\ UNCHANGED <<env, call, result, raised, captures, prompts, files, cache, rf,
                   lastStore, lookup, prevDefault, pm, deep, db, log, hist, ext, mon,
                   up>>

\* _ask_assistants: _ensure_assistant creates the assistant on the first call
\* and logs the awakening, _ensure_thread creates the thread; then the run
\* completes with a text, or something raises
AskAssistants ==
    /\ chat.pc = "assistants"
    /\ \E created \in BOOLEAN, log_ok \in BOOLEAN, thread_created \in BOOLEAN,
          completed \in BOOLEAN :
         LET creating == ~chat.assistant_id
             awake == creating /\ created /\ log_ok
             ensured == ~creating \/ awake
             threaded == ensured /\ (chat.thread_id \/ thread_created)
         IN  chat' = [chat EXCEPT
                 !.assistant_id = @ \/ (creating /\ created),
                 !.thread_id = @ \/ (ensured /\ thread_created),
                 !.events = IF awake
                            THEN logged(@, "system", <<"Arianna consciousness awakened (Assistants)">>)
                            ELSE @,
                 !.assistants_text = threaded /\ completed,
                 !.pc = IF threaded /\ completed THEN "reply" ELSE "except"]
    /\ UNCHANGED <<env, call, result, raised, captures, prompts, files, cache, rf,
                   lastStore, lookup, prevDefault, pm, deep, db, log, hist, ext, mon,
                   up>>

\* log_event(text, role="arianna"); return text -- still inside the try
LogReply ==
    /\ chat.pc = "reply"
    /\ \E log_ok \in BOOLEAN :
         chat' = IF log_ok
                 THEN [chat EXCEPT !.pc = "returned",
                                   !.events = logged(@, "arianna", <<"reply to">> \o chat.message)]
                 ELSE [chat EXCEPT !.pc = "except"]
    /\ UNCHANGED <<env, call, result, raised, captures, prompts, files, cache, rf,
                   lastStore, lookup, prevDefault, pm, deep, db, log, hist, ext, mon,
                   up>>

\* except Exception: log_event("Assistants error ...", role="error")
LogAssistantsError ==
    /\ chat.pc = "except"
    /\ \E log_ok \in BOOLEAN :
         chat' = IF log_ok
                 THEN [chat EXCEPT !.pc = "fallback",
                                   !.events = logged(@, "error", <<"Assistants error">>)]
                 ELSE [chat EXCEPT !.pc = "raised"]
    /\ UNCHANGED <<env, call, result, raised, captures, prompts, files, cache, rf,
                   lastStore, lookup, prevDefault, pm, deep, db, log, hist, ext, mon,
                   up>>

\* the second try: _ask_chat_completion, then the "(fallback)" reply is logged
AskChatCompletion ==
    /\ chat.pc = "fallback"
    /\ \E answered \in BOOLEAN, log_ok \in BOOLEAN :
         chat' = IF answered /\ log_ok
                 THEN [chat EXCEPT !.pc = "returned", !.fallback_called = TRUE,
                                   !.events = logged(@, "arianna",
                                                <<"(fallback)", "reply to">> \o chat.message)]
                 ELSE [chat EXCEPT !.pc = "except_fallback", !.fallback_called = TRUE]
    /\ UNCHANGED <<env, call, result, raised, captures, prompts, files, cache, rf,
                   lastStore, lookup, prevDefault, pm, deep, db, log, hist, ext, mon,
                   up>>

\* except Exception: log_event(err, role="error"); return err
LogFallbackError ==
    /\ chat.pc = "except_fallback"
    /\ \E log_ok \in BOOLEAN :
         chat' = IF log_ok
                 THEN [chat EXCEPT !.pc = "returned",
                                   !.events = logged(@, "error", <<"fallback failed">>)]
                 ELSE [chat EXCEPT !.pc = "raised"]
    /\ UNCHANGED <<env, call, result, raised, captures, prompts, files, cache, rf,
                   lastStore, lookup, prevDefault, pm, deep, db, log, hist, ext, mon,
                   up>>

InitChat ==
    /\ InitCommon
    /\ env \in {h \in Hosts : h.genai /\ h.api_key /\ h.pypdf /\ ~h.termux
                              /\ ~h.camera_tool /\ ~h.mic_tool}
    /\ files = [p \in Paths |-> None]

NextChat ==
    \/ Chat
    \/ AskAssistants
    \/ LogReply
    \/ LogAssistantsError
    \/ AskChatCompletion
    \/ LogFallbackError

SpecChat == InitChat /\ [][NextChat]_vars

----------------------------------------------------------------------------
(* The deep variants: deep_look, deep_listen, deep_read *)

MaxQuestions == 2
QuestionTexts == {<<>>, <<"Why?">>}

RECURSIVE ListsUpTo(_)
ListsUpTo(n) ==
    IF n = 0 THEN {<<>>}
    ELSE LET shorter == ListsUpTo(n - 1)
         IN  shorter \cup {Append(l, q) : l \in {x \in shorter : Len(x) = n - 1},
                                         q \in QuestionTexts}

\* follow_up_questions: List[str]
QuestionLists == ListsUpTo(MaxQuestions)

DeepOrgans == {"vision", "hearing", "document"}

\* the "stage" of the first entry
initial_stage(organ) ==
    IF organ = "vision" THEN <<"initial_perception">>
    ELSE IF organ = "hearing" THEN <<"initial_hearing">>
    ELSE <<"initial_read">>

\* enumerate(questions, 0): the labels start at follow_up_0
follow_up_stage_from_zero(i) == <<"follow_up_", Str(i - 1)>>

\* f"follow_up_{i}" with i from enumerate(questions, 1)
follow_up_stage(i) == <<"follow_up_", Str(i)>>

\* the dict appended to results for call number i (0: the initial call)
deep_entry(organ, i, questions, res) ==
    IF i = 0 THEN [stage |-> initial_stage(organ), result |-> res]
    ELSE [stage |-> follow_up_stage(i), question |-> questions[i], result |-> res]

DeepPath(input) == IF input = "ok" THEN "notes.txt" ELSE "paper.pdf"

DeepStart ==
    /\ deep.pc \in {"idle", "done"}
    /\ \E organ \in DeepOrgans, who \in {MAIN, INNER}, questions \in QuestionLists,
          input \in {"ok", "missing"} :
         deep' = [pc |-> "call", organ |-> organ, who |-> who,
                  questions |-> questions, input |-> input, i |-> 0,
                  pending |-> None, results |-> <<>>, made |-> <<>>,
                  answer |-> None]
    /\ UNCHANGED <<env, call, result, raised, captures, prompts, files, cache, rf,
                   lastStore, lookup, prevDefault, pm, db, log,
                   hist, ext, mon, chat, up>>

\* one see_image / hear_audio / read_file call of the deep variant: the
\* initial one without a question, then one per follow-up question
DeepCall ==
    /\ deep.pc = "call"
    /\ \E inf \in InfOutcomes :
         LET q == IF deep.i = 0 THEN None ELSE Some(deep.questions[deep.i])
             path == DeepPath(deep.input)
             doc == read_file(cache, path, files[path], q, deep.who,
                              gemini_available, env.pypdf, inf)
             res == IF deep.organ = "vision"
                    THEN see_image(vision_available, deep.input, q, deep.who,
                                   inf).result[1]
                    ELSE IF deep.organ = "hearing"
                    THEN hear_audio(hearing_available, deep.input, q, deep.who,
                                    inf).result[1]
                    ELSE doc.out.result[1]
         IN  /\ deep' = [deep EXCEPT !.pc = "record", !.pending = Some(res),
                              !.made = Append(@, [question |-> q, result |-> res,
                                                  extracted |-> deep.organ = "document"
                                                                /\ doc.extracted])]
             /\ cache' = IF deep.organ = "document" THEN doc.rows ELSE cache
    /\ UNCHANGED <<env, call, result, raised, captures, prompts, files, rf,
                   lastStore, lookup, prevDefault, pm, db, log,
                   hist, ext, mon, chat, up>>

\* results.append({...}) and the loop's next iteration or its end
DeepRecord ==
    /\ deep.pc = "record"
    /\ deep' = [deep EXCEPT
            !.results = Append(@, deep_entry(deep.organ, deep.i, deep.questions,
                                             deep.pending[1])),
            !.pending = None,
            !.i = @ + 1,
            !.pc = IF deep.i = Len(deep.questions) THEN "return" ELSE "call"]
    /\ UNCHANGED <<env, call, result, raised, captures, prompts, files, cache, rf,
                   lastStore, lookup, prevDefault, pm, db, log,
                   hist, ext, mon, chat, up>>

\* a top-level success that follows the dialogue's results
deep_return_by_results(organ, results) ==
    [success |-> \E i \in 1..Len(results) : GetBool(results[i].result, "success"),
     organ |-> organ, dialogue |-> results, depth |-> Len(results)]

\* the dict a deep variant returns
deep_return(organ, results) ==
    [success |-> TRUE, organ |-> organ, dialogue |-> results,
     depth |-> Len(results)]

DeepReturn ==
    /\ deep.pc = "return"
    /\ deep' = [deep EXCEPT !.pc = "done",
                           !.answer = Some(deep_return(deep.organ, deep.results))]
    /\ UNCHANGED <<env, call, result, raised, captures, prompts, files, cache, rf,
                   lastStore, lookup, prevDefault, pm, db, log,
                   hist, ext, mon, chat, up>>

\* the deep variants called again and again, with or without the credential;
\* notes.txt exists, paper.pdf does not
InitDeep ==
    /\ InitCommon
    /\ env \in {h \in Hosts : h.genai /\ h.pypdf /\ ~h.termux
                              /\ ~h.camera_tool /\ ~h.mic_tool}
    /\ files = [p \in Paths |-> IF p = "notes.txt" THEN Some(TextA) ELSE None]

NextDeep ==
    \/ DeepStart
    \/ DeepCall
    \/ DeepRecord
    \/ DeepReturn

SpecDeep == InitDeep /\ [][NextDeep]_vars

----------------------------------------------------------------------------
(* Claims about the organ contract *)

Returned == call.op # "none"

NotAvailableErrors ==
    {"Vision module not available", "Hearing module not available",
     "termux-screenshot not available"}

FailedAsNotAvailable ==
    /\ ~raised /\ result # None
    /\ result[1].success = FALSE
    /\ result[1].error \in NotAvailableErrors
    /\ captures = 0
    /\ prompts = <<>>

MetFailure ==
    \/ call.input # "ok"
    \/ ~call.capture_ok
    \/ (call.inf = "raise" /\ prompts # <<>>)

\* C4: no organ perceive operation lets an exception escape; a missing input,
\* a failed capture and a raising inference call each give a returned result
\* with success=false and a non-empty error message.
C4_NoEscape ==
    Returned =>
        /\ ~raised
        /\ result # None
        /\ "success" \in DOMAIN result[1]
        /\ (MetFailure =>
               /\ result[1].success = FALSE
               /\ "error" \in DOMAIN result[1]
               /\ result[1].error # "")

C4_Witness ==
    /\ call.op = "hear_audio" /\ call.available
    /\ call.inf = "raise" /\ prompts # <<>>
    /\ result # None /\ result[1].success = FALSE

\* the preambles of the organ whose catalog serves an operation: Screen has
\* one preamble of its own for both personas and routes the persona through
\* the Vision organ it delegates to
CatalogOf(op) ==
    CASE op \in {"see_image", "watch_video", "see_screen"} ->
             [main |-> "VISION_PROMPT_MAIN", inner |-> "VISION_PROMPT_INNER"]
      [] op = "hear_audio" ->
             [main |-> "HEARING_PROMPT_MAIN", inner |-> "HEARING_PROMPT_INNER"]
      [] op = "read_file" ->
             [main |-> "DOCUMENT_PROMPT_MAIN", inner |-> "DOCUMENT_PROMPT_INNER"]

\* C5: in every prompt an organ submits, persona 'inner' has the inner
\* preamble and persona 'main' the main preamble, the two being different, so
\* the preamble is never the other persona's.
C5_PersonaPreamble ==
    \A i \in DOMAIN prompts :
        /\ CatalogOf(call.op).main # CatalogOf(call.op).inner
        /\ (call.who = INNER => prompts[i].preamble = CatalogOf(call.op).inner)
        /\ (call.who = MAIN => prompts[i].preamble = CatalogOf(call.op).main)

C5_Witness ==
    /\ call.op = "see_screen" /\ call.who = INNER
    /\ prompts # <<>> /\ prompts[1].preamble = "VISION_PROMPT_INNER"

GivenQuestionUsed ==
    (Returned /\ Truthy(call.question)) =>
        \A i \in DOMAIN prompts : AskedQuestion(call, prompts[i]) = call.question[1]

\* the current call and an earlier call of the same operation both used a
\* default question, one for each persona
BothPersonasDefaulted ==
    /\ UsedDefault(call, prompts)
    /\ prevDefault.op = call.op
    /\ prevDefault.who # call.who

\* C6, as stated: on every organ the prompt of a call made without a question
\* carries the calling persona's default question, the defaults of the two
\* personas differ, and a question the caller gives is used instead.
C6_EveryOrganPersonaDefault ==
    /\ BothPersonasDefaulted =>
           AskedQuestion(call, prompts[1]) # prevDefault.question
    /\ GivenQuestionUsed

\* C6, amended: see_image and hear_audio use the calling persona's default
\* question and the two defaults differ; see_screen and watch_video use one
\* default question for both personas; read_file builds no prompt when no
\* question is given; a non-empty question the caller gives is used instead.
C6_DefaultQuestions ==
    /\ (BothPersonasDefaulted /\ call.op \in {"see_image", "hear_audio"}) =>
           AskedQuestion(call, prompts[1]) # prevDefault.question
    /\ (UsedDefault(call, prompts) /\ prevDefault.op = call.op
            /\ prevDefault.who = call.who) =>
           AskedQuestion(call, prompts[1]) = prevDefault.question
    /\ (UsedDefault(call, prompts) /\ call.op = "see_screen") =>
           AskedQuestion(call, prompts[1]) = ScreenDefault
    /\ (UsedDefault(call, prompts) /\ call.op = "watch_video") =>
           AskedQuestion(call, prompts[1]) = VideoDefault
    /\ (Returned /\ call.op = "read_file" /\ ~Truthy(call.question)) =>
           prompts = <<>>
    /\ GivenQuestionUsed

C6_Witness ==
    /\ BothPersonasDefaulted
    /\ call.op = "see_image"
    /\ AskedQuestion(call, prompts[1]) = VisionDefaultInner
    /\ prevDefault.question = VisionDefaultMain

----------------------------------------------------------------------------
(* Claims about the extraction cache *)

ReadReturned == Returned /\ call.op = "read_file" /\ ~raised /\ result # None

\* the text _detect_and_extract gives for the content that read_file hashed
ExtractionOfHashed ==
    detect_and_extract(call.path, call.hashed, env.pypdf).extracted_text

\* C7: read_file never serves a stale cache hit: a read_file during which the
\* file kept the content that was hashed returns the text extracted from that
\* content, whatever modifications and reads came before, also a modification
\* that landed between the hash computation and the extraction of an earlier
\* read_file.
C7_NoStaleHit ==
    (ReadReturned /\ result[1].success /\ ~call.stale) =>
        result[1].extracted_text = ExtractionOfHashed

\* C10: a cache I/O error during lookup or store does not prevent extraction:
\* a read_file of a present, unchanged file whose inference call (if any) did
\* not fail returns success=true with the extracted text although sqlite3
\* raised.
C10_CacheErrorIsMiss ==
    (ReadReturned /\ call.cache_err /\ call.input = "ok" /\ ~call.stale
        /\ ~(call.inf = "raise" /\ prompts # <<>>)) =>
        /\ result[1].success = TRUE
        /\ result[1].extracted_text = ExtractionOfHashed

RowsOf(path) == {r \in cache : r.path = path}

\* C8: a _get_cached(p, h) made after stores returns exactly the text and the
\* summary of the last _save_cache(p, h, ...) when the last store for p had
\* hash h, and is a miss for every other hash, also when p has an entry.
C8_RoundTrip ==
    lookup.op = "get" =>
        LET last == lastStore[lookup.path].row
        IN  lookup.answer =
                IF last # None /\ last[1].file_hash = lookup.file_hash
                THEN Some([extracted_text |-> last[1].extracted_text,
                           summary |-> last[1].summary])
                ELSE None

C8_Witness ==
    /\ lookup.op = "get" /\ lookup.answer # None
    /\ lastStore[lookup.path].count = 2

\* C9: after any sequence of stores the cache holds at most one entry for a
\* path, and it is the row of the last store for that path.
C9_OneEntryLastWrite ==
    \A path \in Paths :
        RowsOf(path) = {lastStore[path].row[i] : i \in DOMAIN lastStore[path].row}

C9_Witness ==
    \E path \in Paths :
        /\ lastStore[path].count = 2
        /\ Cardinality(RowsOf(path)) = 1
        /\ Cardinality(cache) = 2

----------------------------------------------------------------------------
(* Claims about the orchestrator's fan-out *)

PMReturned == pm.pc = "done"

\* C1: perceive_moment never aborts because an organ's attempt failed: no
\* organ block lets an exception escape, and at every point of the call the
\* organs mapping holds exactly the perceptions contributed so far, each
\* unchanged, and nothing for an organ whose attempt failed.
C1_NeverAborts ==
    /\ pm.pc # "raised"
    /\ pm.pc # "idle" =>
        /\ \A c \in pm.contributed :
              c[1] \in DOMAIN pm.organs /\ pm.organs[c[1]] = c[2]
        /\ DOMAIN pm.organs = {c[1] : c \in pm.contributed}
        /\ pm.failed \cap DOMAIN pm.organs = {}
        /\ PMReturned => pm.response # None /\ pm.response[1].perceptions = pm.organs

C1_Witness ==
    /\ PMReturned
    /\ pm.failed = {"screen"}
    /\ pm.skipped = {"vision", "hearing"}

\* C2: perceive_moment on a host where the Vision organ and the camera
\* capture are available and Hearing is not returns an organs mapping whose
\* only key is 'vision'; where neither Vision nor Hearing is available it
\* returns an empty mapping and /perceive reports success.
C2_VisionOnly ==
    (PMReturned /\ ~pm.include_screen) =>
        /\ (vision_available /\ env.camera_tool /\ ~env.mic_tool) =>
              DOMAIN pm.organs = {"vision"}
        /\ (~(vision_available /\ env.camera_tool)
            /\ ~(hearing_available /\ env.mic_tool)) =>
              /\ DOMAIN pm.organs = {}
              /\ pm.response[1].success = TRUE

\* C11: a cache entry is created only by a successful extraction: no row of
\* the cache holds the bracketed error text an extraction gives when it fails
\* (missing parser library, parse error, unreadable content).
C11_OnlySuccessfulExtractionCached ==
    \A r \in cache : ~StartsWithBracket(r.extracted_text)

\* C12: without an inference credential, read_file of an existing readable
\* plain-text file returns success=true with understanding equal to the
\* fallback summary built from the extraction and submits no prompt, with a
\* question as without one.
C12_ExtractionOnly ==
    (ReadReturned /\ ~env.api_key /\ call.input = "ok"
        /\ Suffix(call.path) = ".txt") =>
        /\ result[1].success = TRUE
        /\ result[1].understanding =
              make_summary("TEXT", extract_txt(call.hashed[1]))
        /\ result[1].extracted_text = extract_txt(call.hashed[1])
        /\ prompts = <<>>

C12_Witness ==
    /\ ReadReturned /\ ~env.api_key /\ env.genai /\ call.input = "ok"
    /\ Suffix(call.path) = ".txt"
    /\ Truthy(call.question)
    /\ result[1].understanding = <<"TEXT", "document with", "3", "words.">>

\* C15: perceive_moment attempts the Screen organ only when include_screen is
\* set and both the Screen organ and its Vision delegate are available: once
\* the screen block is passed in any other case, no screenshot was captured
\* and organs has no 'screen' key.
C15_ScreenOnlyWhenAvailable ==
    (pm.pc \in {"hearing", "return", "done"}
        /\ ~(pm.include_screen /\ SCREEN_AVAILABLE /\ screen_VISION_AVAILABLE
             /\ termux_available /\ vision_available)) =>
        /\ "screen" \notin DOMAIN pm.organs
        /\ "screen" \in DOMAIN pm.captures => pm.captures["screen"] = "0"

----------------------------------------------------------------------------
(* Claims about the deep variants *)

\* C13: a deep variant given [q1..qn] makes its calls one after the other,
\* each only after the previous result was appended: first the call with no
\* question, then one per question in order; the k-th entry holds the k-th
\* call's result under the label of its stage (the initial label, then
\* follow_up_1 .. follow_up_n) with its question, and exactly n+1 entries are
\* returned.
C13_DeepOrdered ==
    deep.pc # "idle" =>
        LET n == Len(deep.questions)
            done == Len(deep.results)
        IN  /\ done <= n + 1
            /\ Len(deep.made) = done + (IF deep.pending # None THEN 1 ELSE 0)
            /\ deep.pc = "call" => deep.pending = None /\ deep.i = done
            /\ \A k \in 1..Len(deep.made) :
                  deep.made[k].question =
                      IF k = 1 THEN None ELSE Some(deep.questions[k - 1])
            /\ \A k \in 1..done :
                  /\ deep.results[k].result = deep.made[k].result
                  /\ deep.results[k].stage =
                        IF k = 1 THEN initial_stage(deep.organ)
                        ELSE <<"follow_up_", Str(k - 1)>>
                  /\ k > 1 => deep.results[k].question = deep.questions[k - 1]
            /\ deep.pc = "done" =>
                  /\ done = n + 1
                  /\ deep.answer[1].dialogue = deep.results
                  /\ deep.answer[1].depth = n + 1

C13_Witness ==
    /\ deep.pc = "done"
    /\ deep.questions = <<<<"Why?">>, <<>>>>
    /\ Len(deep.answer[1].dialogue) = 3
    /\ deep.answer[1].dialogue[2].result # deep.answer[1].dialogue[3].result

----------------------------------------------------------------------------
(* Claims about read_and_see *)

MergeReturned == call.op = "read_and_see"

\* C14: read_and_see returns one result whose perceptions mapping tells for
\* each channel on its own whether it succeeded: it has the key 'document'
\* exactly when the Document call succeeded and then holds its understanding,
\* and the key 'screen' exactly when the Screen call succeeded and then holds
\* its perception, whatever the other channel did.
C14_IndependentChannels ==
    MergeReturned =>
        /\ ~raised /\ result # None
        /\ LET perceptions == result[1].perceptions
           IN  /\ DOMAIN perceptions \subseteq {"document", "screen"}
               /\ "document" \in DOMAIN perceptions <=> GetBool(call.doc, "success")
               /\ "screen" \in DOMAIN perceptions <=> GetBool(call.screen, "success")
               /\ "document" \in DOMAIN perceptions =>
                     perceptions["document"] = call.doc.understanding
               /\ "screen" \in DOMAIN perceptions =>
                     perceptions["screen"] = call.screen.screen_perception

C14_Witness ==
    /\ MergeReturned
    /\ ~GetBool(call.doc, "success")
    /\ DOMAIN result[1].perceptions = {"screen"}

----------------------------------------------------------------------------
(* Claims about the conversation store *)

RECURSIVE LastN(_, _)
LastN(seq, n) == IF Len(seq) <= n THEN seq ELSE LastN(Tail(seq), n)

StoreContents ==
    [k \in 1..Len(db.files[DB_PATH][1].rows) |-> db.files[DB_PATH][1].rows[k].content]

\* C17: history retrieval with a limit answers with the most recent `limit`
\* events appended through log_event before it, oldest first (after E1, E2,
\* E3 and limit=2: exactly [E2, E3]).
C17_RecentEvents ==
    hist # None =>
        /\ hist[1].answer.status = 200
        /\ hist[1].answer.body.history = LastN(hist[1].appended, hist[1].limit)

\* C18: concurrent log_event calls lose no entries: at every moment the store
\* holds the events of all log_event calls that returned, in the order of
\* their return.
C18_NoLostAppend ==
    StoreContents = db.done

C18_Witness ==
    /\ Len(db.done) >= 3
    /\ db.overlapped
    /\ StoreContents = db.done

----------------------------------------------------------------------------
(* Claims about the API facade *)

\* a boolean success field plus a result payload or an error string
UniformBody(body) ==
    /\ "success" \in DOMAIN body
    /\ body.success \in BOOLEAN
    /\ body.success =>
          DOMAIN body \cap {"response", "perception", "history", "perceptions"} # {}
    /\ ~body.success => "error" \in DOMAIN body

\* C19: each API operation makes exactly one Orchestrator call and answers
\* with a boolean success field plus a result payload or an error string,
\* after a failed call as after a successful one.
C19_UniformAnswers ==
    /\ call.op = "api" =>
          /\ call.orchestrator_calls = 1
          /\ UniformBody(result[1].body)
    /\ hist # None =>
          /\ hist[1].orchestrator_calls = 1
          /\ UniformBody(hist[1].answer.body)
    /\ PMReturned => UniformBody(pm.response[1])

----------------------------------------------------------------------------
(* Claims about blocking boundaries *)

\* C20: every inference call and every capture subprocess is bounded by an
\* explicit timeout: an operation waiting for its external call eventually
\* returns, and with a failure outcome when it returns by timeout.
C20_BoundedWait ==
    /\ (ext.pc = "waiting") ~> (ext.pc = "returned")
    /\ [](ext.pc = "returned" /\ ext.timed_out => ext.outcome = "failure")

----------------------------------------------------------------------------
(* Claims about the returned perception *)

\* the keys that hold an interpretation in a result dict
InterpretationKeys ==
    {"perception", "summary", "screen_perception", "understanding",
     "extracted_text"}

\* C22: every result of an organ operation, successful or failed, carries the
\* identity of the organ that was invoked; a failed result carries an error
\* message and no interpretation.
C22_OrganIdentity ==
    result # None =>
        /\ "organ" \in DOMAIN result[1]
        /\ result[1].organ = call.organ
        /\ ~result[1].success =>
               /\ "error" \in DOMAIN result[1]
               /\ DOMAIN result[1] \cap InterpretationKeys = {}

\* C26: see_screen called with save_screenshot = false leaves no screenshot
\* file behind when it returns, whatever the outcome of the analysis.
C26_NoScreenshotLeft ==
    (call.op = "see_screen" /\ ~call.save_screenshot) => call.shots_left = 0

----------------------------------------------------------------------------
(* Claims about continuous monitoring *)

WatchRunning == mon.pc \in {"loop", "callback", "sleep"}

\* the maximum duration given to the running watch has elapsed
MaxElapsed ==
    /\ WatchRunning
    /\ mon.max_duration_seconds # None
    /\ mon.now - mon.start_time >= mon.max_duration_seconds[1]

\* a step in which the loop calls see_screen
CaptureStarts == mon.pc = "loop" /\ mon'.pc \in {"callback", "sleep"}

\* C21: the continuous loops check a stop signal and an optional maximum
\* duration between iterations: after a stop request, or once the maximum
\* duration has elapsed, no further capture starts and the loop terminates.
C21_StopAndMaxDuration ==
    /\ [][CaptureStarts => (mon.is_monitoring /\ ~MaxElapsed)]_vars
    /\ (WatchRunning /\ ~mon.is_monitoring) ~> (mon.pc = "returned")
    /\ MaxElapsed ~> (mon.pc = "returned")

\* C27: is_monitoring is true only while a watch_screen_continuous loop is
\* running: it is false after the call returns by any path, and in mode OFF
\* the call returns without a screenshot and without changing is_monitoring.
C27_MonitoringFlag ==
    /\ mon.is_monitoring => WatchRunning
    /\ (mon.pc = "returned" /\ mon.why = "off") => mon.shots = 0

C27_Witness ==
    /\ mon.pc = "returned" /\ mon.why \in {"max", "exception"}
    /\ mon.shots = 1

----------------------------------------------------------------------------
(* Claims about repeated reads and the deep variants' answer *)

\* the read_file calls a deep_read has made so far without a question
PlainReads ==
    {i \in 1..Len(deep.made) : ~Truthy(deep.made[i].question)}

\* the content fields of a read_file result
ReadContent(res) ==
    IF res.success THEN <<res.extracted_text, res.understanding>> ELSE <<>>

\* C25: reading the same unchanged file twice with no question returns the
\* same extracted_text and the same understanding, and the second read is
\* served from the cache: within deep_read extraction runs at most once.
C25_RepeatedRead ==
    (deep.pc # "idle" /\ deep.organ = "document") =>
        /\ \A i, j \in PlainReads :
               ReadContent(deep.made[i].result) = ReadContent(deep.made[j].result)
        /\ \A i, j \in 1..Len(deep.made) :
               (deep.made[i].extracted /\ deep.made[j].extracted) => i = j
        /\ \A i \in 2..Len(deep.made) :
               deep.made[1].result.success => ~deep.made[i].extracted

C25_Witness ==
    /\ deep.pc = "done" /\ deep.organ = "document"
    /\ Len(deep.made) >= 2
    /\ deep.made[1].extracted
    /\ deep.made[2].question = Some(<<>>)
    /\ deep.made[2].result.success
    /\ deep.made[2].result.file_type = "CACHED"

\* C28: deep_look, deep_listen and deep_read report success = true at the top
\* level even when every underlying perceive call failed; the failures are
\* visible only inside the dialogue entries.
C28_DeepAlwaysSucceeds ==
    deep.pc = "done" =>
        /\ deep.answer[1].success
        /\ "error" \notin DOMAIN deep.answer[1]
        /\ \A i \in 1..Len(deep.made) :
               deep.answer[1].dialogue[i].result = deep.made[i].result

C28_Witness ==
    /\ deep.pc = "done"
    /\ Len(deep.made) >= 2
    /\ \A i \in 1..Len(deep.made) : ~deep.made[i].result.success
    /\ deep.answer[1].success

----------------------------------------------------------------------------
(* Claims about the Document organ's use of inference *)

\* what read_file answers in the current state when given no question
PlainRead(path, question, who) ==
    read_file(cache, path, files[path], question, who, gemini_available,
              env.pypdf, "ok")

\* the summary read_file holds for a file: the cached one, else the one made
\* from the extraction
SummaryOf(path) ==
    LET cached == get_cached(cache, path, get_file_hash(files[path][1]))
        d == detect_and_extract(path, files[path], env.pypdf)
    IN  IF cached # None THEN cached[1].summary
        ELSE make_summary(d.file_type, d.extracted_text)

\* C29: read_file calls the inference capability if and only if the credential
\* is available and a non-empty question is given; with no question the
\* understanding is the extraction summary, the same for both personas.
C29_InferenceOnlyWhenAsked ==
    /\ (call.op = "read_file" /\ rf.pc = "idle") =>
           /\ prompts # <<>> => (call.available /\ Truthy(call.question))
           /\ (call.available /\ Truthy(call.question) /\ call.input = "ok")
                  => prompts # <<>>
           /\ (result[1].success /\ ~Truthy(call.question))
                  => result[1].understanding = SummaryOf(call.path)
    /\ \A path \in Paths, q \in {None, Some(<<>>)} :
           files[path] # None =>
               LET main == PlainRead(path, q, MAIN).out
                   inner == PlainRead(path, q, INNER).out
               IN  /\ main.prompts = <<>> /\ inner.prompts = <<>>
                   /\ main.result[1].understanding = SummaryOf(path)
                   /\ inner.result[1].understanding = SummaryOf(path)

C29_Witness ==
    /\ call.op = "read_file" /\ rf.pc = "idle"
    /\ call.available /\ call.question = Some(<<>>) /\ call.who = INNER
    /\ result[1].success /\ prompts = <<>>
    /\ result[1].understanding = SummaryOf("notes.txt")

----------------------------------------------------------------------------
(* Claims about persona routing *)

\* what see_image answers to the same call made by the main persona
AsMain == see_image(call.available, call.input, call.question, MAIN, call.inf)

\* C30: a persona value other than exactly "inner" is routed to the main
\* preamble and the main default question, the perception echoes the caller's
\* persona string unchanged, and no persona value is rejected.
C30_OtherPersonaIsMain ==
    (call.op = "see_image" /\ call.who # INNER) =>
        /\ prompts = AsMain.prompts
        /\ prompts # <<>> =>
               /\ prompts[1].preamble = VISION_PROMPT_MAIN
               /\ ~Truthy(call.question) => prompts[1].question = VisionDefaultMain
        /\ result[1].success = AsMain.result[1].success
        /\ result[1].success =>
               /\ result[1].who_sees = call.who
               /\ result[1].perception = AsMain.result[1].perception

C30_Witness ==
    /\ call.op = "see_image" /\ call.who = "INNER" /\ call.question = None
    /\ result[1].success /\ result[1].who_sees = "INNER"
    /\ prompts[1].question = VisionDefaultMain

----------------------------------------------------------------------------
(* Claims about the events of one chat call *)

Roles(events) == [i \in 1..Len(events) |-> events[i].role]

IsFallbackReply(e) == e.role = "arianna" /\ e.content[1] = "(fallback)"

\* C23: within one chat call the events logged are the caller's message with
\* role oleg, then one arianna reply, or one error and one "(fallback)"
\* arianna reply, or two errors; the fallback is called only after the
\* Assistants path raised, never after it succeeded.
C23_ChatEvents ==
    /\ chat.pc = "returned" =>
           \/ /\ Roles(chat.events) = <<"oleg", "arianna">>
              /\ ~IsFallbackReply(chat.events[2])
           \/ /\ Roles(chat.events) = <<"oleg", "error", "arianna">>
              /\ IsFallbackReply(chat.events[3])
           \/ Roles(chat.events) = <<"oleg", "error", "error">>
    /\ (chat.pc # "idle" /\ chat.fallback_called) => ~chat.assistants_text

----------------------------------------------------------------------------
(* Claims about concurrent uploads *)

\* C24: concurrent /photo requests do not interfere: under every interleaving
\* of two requests each analysis runs on the bytes that request uploaded, and
\* no request fails because another overwrote or deleted its temporary file.
C24_UploadsIsolated ==
    \A r \in Requests :
        up.req[r].pc = "done" =>
            /\ up.req[r].analysed = Some(Uploaded(r))
            /\ up.req[r].answer.status = 200
====
